---- MODULE Spec2Model ----
(***************************************************************************)
(* A model of kodon-py: the TEI parser (src/kodon_py/tei_parser.py), the   *)
(* two-phase ingestion pipeline (ingestion.py, cli.py) and the loader      *)
(* (api.py) writing to the storage schema (database.py, migrations).       *)
(*                                                                         *)
(* A TEIParser instance is a record; every method of the class is an       *)
(* operator from a record (and the event's arguments) to the record after  *)
(* the call.  Python dicts that are shared by reference (an element is on  *)
(* the element stack and in its parent's children at once; a textpart is   *)
(* on the textpart stack while tokens are appended to it) live in the      *)
(* heaps heap_el and heap_tp of the record and are referred to by their    *)
(* position there.  Strings are built as the f-strings build them.         *)
(***************************************************************************)
EXTENDS Integers, Sequences, FiniteSets, TLC

VARIABLES
    tree,       \* the header of the document given to TEIParser(filename)
    events,     \* the SAX events lxml.sax.saxify has delivered so far
    sax,        \* the tags saxify has opened and not yet closed
    parser,     \* the TEIParser instance
    parser2,    \* a second TEIParser instance, fed the same events
    pos2,       \* the number of events the second instance has consumed
    trace,      \* the states the first instance went through, one per event
    log,        \* the records of the module-level logger
    fs,         \* the output directory: the artifact of each source file
    db,         \* the committed rows of the database
    db_exists,  \* whether the database file exists
    session,    \* the rows the db session has flushed and not committed
    run,        \* the command that is running, and how far it is
    reports,    \* the counts echoed by the commands that have ended
    last,       \* the outcome of the last call on one file
    status,     \* what the last status command has reported
    workers,    \* load workers running at once on one storage
    toc,        \* a call of create_table_of_contents
    source_dir  \* the source files that lie in the source directory

pvars == <<tree, events, sax, parser, parser2, pos2, trace, log>>

ivars == <<fs, db, db_exists, session, run, reports, last>>

\* The variables of the status command, the workers and the contents call,
\* and the source directory the commands are given.
ovars == <<status, workers, toc, source_dir>>

vars == <<pvars, ivars, ovars>>

(***************************************************************************)
(* Bounds of the model.                                                    *)
(***************************************************************************)
MaxEvents == 8
MaxRuns == 3

\* The events of a document that a second parser instance parses again.
MaxReplay == 7

\* The events of the documents parsed under every header.
MaxHeaderEvents == 3

\* The calls of save_to_db and load_json_to_database made on one database.
MaxCalls == 3

\* The textparts of a list handed to create_table_of_contents.
MaxEntries == 4

(***************************************************************************)
(* Python values.                                                          *)
(***************************************************************************)
None == "None"

Last(s) == s[Len(s)]

Front(s) == SubSeq(s, 1, Len(s) - 1)

InSeq(x, s) == \E i \in 1..Len(s) : s[i] = x

RECURSIVE Join(_, _)
Join(parts, sep) ==
    IF Len(parts) = 0 THEN ""
    ELSE IF Len(parts) = 1 THEN parts[1]
    ELSE parts[1] \o sep \o Join(Tail(parts), sep)

(***************************************************************************)
(* The inputs: document headers, attributes, tags and character data.      *)
(***************************************************************************)
\* Which metadata sections the TEI header holds (etree.parse(filename)).
FullTree ==
    [author |-> TRUE, editionStmt |-> TRUE, publicationStmt |-> TRUE,
     respStmt |-> TRUE, sourceDesc |-> TRUE, title |-> TRUE]

\* The headers of the documents the parser model is run on.
Trees ==
    { FullTree,
      [FullTree EXCEPT !.editionStmt = FALSE],
      [FullTree EXCEPT !.sourceDesc = FALSE] }

\* remove_ns_from_attrs: the attributes of an open event by local name; an
\* attribute the tag does not carry is None here and a missing key in Python.
\* Every header: each of the six sections is there or not.
Headers ==
    [author : BOOLEAN, editionStmt : BOOLEAN, publicationStmt : BOOLEAN,
     respStmt : BOOLEAN, sourceDesc : BOOLEAN, title : BOOLEAN]

NoAttrs == [type |-> None, n |-> None, subtype |-> None, lang |-> None]

remove_ns_from_attrs(type, n, subtype, lang) ==
    [type |-> type, n |-> n, subtype |-> subtype, lang |-> lang]

EditionAttrs ==
    { remove_ns_from_attrs("edition", "u", None, lang) : lang \in {"grc", None} }

TextpartAttrs ==
    { remove_ns_from_attrs("textpart", n, "chapter", None) : n \in {"1", None} }

OtherDivAttrs ==
    { remove_ns_from_attrs("commentary", None, None, None), NoAttrs }

DivAttrs == EditionAttrs \cup TextpartAttrs \cup OtherDivAttrs

\* The tags startElementNS names in its match statement (lines 406-425).
KnownTags ==
    { "choice", "corr", "del", "foreign", "gap", "head", "hi", "l", "label",
      "lb", "lg", "milestone", "note", "num", "p", "pb", "quote", "sic" }

\* The element tags the model's documents use; "seg" is not a known tag.
Tags == {"p", "seg"}

\* One token of the segmentation port (a stanza token: text, spaces_after).
Tok(text, spaces_after) == [text |-> text, spaces_after |-> spaces_after]

\* Character data: whether content.strip() is empty, and the tokens the
\* segmentation port returns for it (the same for every call on it).
Contents ==
    { [blank |-> TRUE, toks |-> <<Tok(" ", "")>>],
      [blank |-> FALSE, toks |-> <<Tok("Test", " "), Tok("content", "")>>] }

NoContent == [blank |-> TRUE, toks |-> <<>>]

\* SAX events.
StartEv(name, attrs) ==
    [kind |-> "start", name |-> name, attrs |-> attrs, content |-> NoContent]

CharsEv(content) ==
    [kind |-> "chars", name |-> "", attrs |-> NoAttrs, content |-> content]

EndEv(name) ==
    [kind |-> "end", name |-> name, attrs |-> NoAttrs, content |-> NoContent]

(***************************************************************************)
(* TEIParser (tei_parser.py).                                              *)
(***************************************************************************)
\* A record of the module logger: logger.warning / logger.debug.
Logged(p, line) == [p EXCEPT !.logger = Append(@, line)]

\* An exception leaving a handler ends the parse: TEIParser(filename) raises.
Raise(p, exc) == [p EXCEPT !.raised = exc]

\* get_stringifiedXML: the section as a string, None if it is absent and
\* optional, an exception if it is absent and required.  The message of the
\* ValueError of line 283 reads self.urn, which __init__ sets only at line
\* 157, after the calls of lines 149-156: building it raises AttributeError.
get_stringifiedXML(t, tagname, required) ==
    IF required /\ ~t[tagname]
    THEN [raised |-> "AttributeError", value |-> None]
    ELSE [raised |-> None,
          value |-> IF t[tagname] THEN "<" \o tagname \o "/>" ELSE None]

get_author(t) == IF t.author THEN "author" ELSE None

get_title(t) == IF t.title THEN "title" ELSE None

get_editionStmt(t) == get_stringifiedXML(t, "editionStmt", TRUE)

get_publicationStmt(t) == get_stringifiedXML(t, "publicationStmt", FALSE)

get_respStmt(t) == get_stringifiedXML(t, "respStmt", FALSE)

get_sourceDesc(t) == get_stringifiedXML(t, "sourceDesc", TRUE)

\* TEIParser.__init__ up to the saxify loop: the fields of a new instance
\* (current_tokens and current_textpart_location are written, never read).
TEIParser_fields(t) ==
    [author |-> get_author(t),
     editionStmt |-> get_editionStmt(t).value,
     language |-> None,
     publicationStmt |-> get_publicationStmt(t).value,
     respStmt |-> get_respStmt(t).value,
     sourceDesc |-> get_sourceDesc(t).value,
     title |-> get_title(t),
     urn |-> None,
     current_textpart_urn |-> None,
     element_stack |-> <<>>,
     elements |-> <<>>,
     textpart_labels |-> <<>>,
     textpart_stack |-> <<>>,
     textparts |-> <<>>,
     unhandled_elements |-> {},
     heap_el |-> <<>>,
     heap_tp |-> <<>>,
     logger |-> <<>>,
     raised |-> IF get_editionStmt(t).raised # None THEN get_editionStmt(t).raised
                ELSE get_sourceDesc(t).raised]

\* determine_location without the loop over the open textparts.
determine_location_own(p, attrs) ==
    LET citation_n == attrs.n
    IN  IF citation_n # None THEN <<citation_n>> ELSE <<>>

\* determine_location: the n of every open textpart that has one, then its own.
determine_location(p, attrs) ==
    LET citation_n == attrs.n
        ns == [i \in 1..Len(p.textpart_stack) |-> p.heap_tp[p.textpart_stack[i]].n]
    IN  SelectSeq(ns, LAMBDA n : n # None)
        \o (IF citation_n # None THEN <<citation_n>> ELSE <<>>)

\* add_textpart_to_stack joining the edition URN and the location with a dot.
add_textpart_to_stack_dotted(p, attrs) ==
    LET subtype == attrs.subtype
        labels == IF subtype # None /\ ~InSeq(subtype, p.textpart_labels)
                  THEN Append(p.textpart_labels, subtype)
                  ELSE p.textpart_labels
        location == determine_location(p, attrs)
        \* determine_location logs a textpart without n (line 216)
        q == IF attrs.n = None THEN Logged(p, "debug: unnumbered textpart") ELSE p
        current_urn == p.urn \o "." \o Join(location, ".")
        textpart == [type |-> attrs.type, n |-> attrs.n, subtype |-> attrs.subtype,
                     lang |-> attrs.lang,
                     index |-> Len(p.textpart_stack) + Len(p.textparts),
                     location |-> location,
                     urn |-> current_urn,
                     tokens |-> <<>>]
    IN  [q EXCEPT !.textpart_labels = labels,
                  !.current_textpart_urn = current_urn,
                  !.heap_tp = Append(@, textpart),
                  !.textpart_stack = Append(@, Len(p.heap_tp) + 1)]

add_textpart_to_stack(p, attrs) ==
    LET subtype == attrs.subtype
        labels == IF subtype # None /\ ~InSeq(subtype, p.textpart_labels)
                  THEN Append(p.textpart_labels, subtype)
                  ELSE p.textpart_labels
        location == determine_location(p, attrs)
        \* determine_location logs a textpart without n (line 216)
        q == IF attrs.n = None THEN Logged(p, "debug: unnumbered textpart") ELSE p
        current_urn == p.urn \o ":" \o Join(location, ".")
        textpart == [type |-> attrs.type, n |-> attrs.n, subtype |-> attrs.subtype,
                     lang |-> attrs.lang,
                     index |-> Len(p.textpart_stack) + Len(p.textparts),
                     location |-> location,
                     urn |-> current_urn,
                     tokens |-> <<>>]
    IN  [q EXCEPT !.textpart_labels = labels,
                  !.current_textpart_urn = current_urn,
                  !.heap_tp = Append(@, textpart),
                  !.textpart_stack = Append(@, Len(p.heap_tp) + 1)]

handle_div(p, attrs) ==
    IF attrs.type = None THEN Raise(p, "KeyError")
    ELSE IF attrs.type = "edition"
    THEN IF attrs.lang = None \/ attrs.n = None THEN Raise(p, "KeyError")
         ELSE [p EXCEPT !.language = attrs.lang, !.urn = attrs.n]
    ELSE IF attrs.type = "textpart" THEN add_textpart_to_stack(p, attrs)
    ELSE p

\* The children of an element: a child element (by its place in heap_el) or
\* a text run (the dict process_tokens returns).
NoRun == [tagname |-> "", tokens |-> <<>>]

ChildElement(ref) == [ref |-> ref, text_run |-> NoRun]

ChildRun(text_run) == [ref |-> 0, text_run |-> text_run]

\* x.get("index") == index for a child x: a text run has no index.
ChildHasIndex(p, x, index) == x.ref # 0 /\ p.heap_el[x.ref].index = index

\* handle_element taking its index from the lines the module's logger holds.
handle_element_counting_log(p, tagname, attrs) ==
    LET outside == Len(p.textpart_stack) = 0
        textpart == IF outside
                    THEN (IF Len(p.textparts) > 0 THEN Last(p.textparts) ELSE 0)
                    ELSE Last(p.textpart_stack)
        q == IF outside THEN Logged(p, "warning: element outside of textparts") ELSE p
    IN  IF textpart = 0 THEN Logged(q, "warning: orphaned element")
        ELSE
        LET textpart_index == p.heap_tp[textpart].index
            counted == SelectSeq(p.elements \o p.element_stack,
                           LAMBDA el : p.heap_el[el].textpart_urn = p.current_textpart_urn)
            urn_element_index == Len(counted) + Len(log)
            element == [children |-> <<>>,
                        index |-> Len(p.element_stack) + Len(p.elements),
                        tagname |-> tagname,
                        textpart_index |-> textpart_index,
                        textpart_urn |-> p.current_textpart_urn,
                        urn |-> p.current_textpart_urn \o "@<" \o tagname \o ">["
                                \o ToString(urn_element_index) \o "]"]
            ref == Len(p.heap_el) + 1
            r == IF Len(p.element_stack) > 0
                    /\ p.heap_el[Last(p.element_stack)].textpart_index # textpart_index
                 THEN Logged(q, "warning: open element belongs to a different textpart")
                 ELSE q
            heap == Append(p.heap_el, element)
        IN  [r EXCEPT
               !.heap_el = IF Len(p.element_stack) > 0
                           THEN [heap EXCEPT ![Last(p.element_stack)].children =
                                                Append(@, ChildElement(ref))]
                           ELSE heap,
               !.element_stack = Append(@, ref)]

\* handle_element falling back to the textpart closed first (self.textparts[0]).
handle_element_first_closed(p, tagname, attrs) ==
    LET outside == Len(p.textpart_stack) = 0
        textpart == IF outside
                    THEN (IF Len(p.textparts) > 0 THEN Head(p.textparts) ELSE 0)
                    ELSE Last(p.textpart_stack)
        q == IF outside THEN Logged(p, "warning: element outside of textparts") ELSE p
    IN  IF textpart = 0 THEN Logged(q, "warning: orphaned element")
        ELSE
        LET textpart_index == p.heap_tp[textpart].index
            counted == SelectSeq(p.elements \o p.element_stack,
                           LAMBDA el : p.heap_el[el].textpart_urn = p.current_textpart_urn)
            urn_element_index == Len(counted)
            element == [children |-> <<>>,
                        index |-> Len(p.element_stack) + Len(p.elements),
                        tagname |-> tagname,
                        textpart_index |-> textpart_index,
                        textpart_urn |-> p.current_textpart_urn,
                        urn |-> p.current_textpart_urn \o "@<" \o tagname \o ">["
                                \o ToString(urn_element_index) \o "]"]
            ref == Len(p.heap_el) + 1
            r == IF Len(p.element_stack) > 0
                    /\ p.heap_el[Last(p.element_stack)].textpart_index # textpart_index
                 THEN Logged(q, "warning: open element belongs to a different textpart")
                 ELSE q
            heap == Append(p.heap_el, element)
        IN  [r EXCEPT
               !.heap_el = IF Len(p.element_stack) > 0
                           THEN [heap EXCEPT ![Last(p.element_stack)].children =
                                                Append(@, ChildElement(ref))]
                           ELSE heap,
               !.element_stack = Append(@, ref)]

handle_element(p, tagname, attrs) ==
    LET outside == Len(p.textpart_stack) = 0
        textpart == IF outside
                    THEN (IF Len(p.textparts) > 0 THEN Last(p.textparts) ELSE 0)
                    ELSE Last(p.textpart_stack)
        q == IF outside THEN Logged(p, "warning: element outside of textparts") ELSE p
    IN  IF textpart = 0 THEN Logged(q, "warning: orphaned element")
        ELSE
        LET textpart_index == p.heap_tp[textpart].index
            counted == SelectSeq(p.elements \o p.element_stack,
                           LAMBDA el : p.heap_el[el].textpart_urn = p.current_textpart_urn)
            urn_element_index == Len(counted)
            element == [children |-> <<>>,
                        index |-> Len(p.element_stack) + Len(p.elements),
                        tagname |-> tagname,
                        textpart_index |-> textpart_index,
                        textpart_urn |-> p.current_textpart_urn,
                        urn |-> p.current_textpart_urn \o "@<" \o tagname \o ">["
                                \o ToString(urn_element_index) \o "]"]
            ref == Len(p.heap_el) + 1
            r == IF Len(p.element_stack) > 0
                    /\ p.heap_el[Last(p.element_stack)].textpart_index # textpart_index
                 THEN Logged(q, "warning: open element belongs to a different textpart")
                 ELSE q
            heap == Append(p.heap_el, element)
        IN  [r EXCEPT
               !.heap_el = IF Len(p.element_stack) > 0
                           THEN [heap EXCEPT ![Last(p.element_stack)].children =
                                                Append(@, ChildElement(ref))]
                           ELSE heap,
               !.element_stack = Append(@, ref)]

\* tok.text.strip() == "" for the token texts of the model.
IsBlank(text) == text \in {"", " "}

RECURSIVE process_tokens_from(_, _, _, _)
process_tokens_from(p, textpart, tokens, text_run) ==
    IF Len(tokens) = 0
    THEN [p |-> p, text_run |-> [tagname |-> "text_run", tokens |-> text_run]]
    ELSE
    LET tok == Head(tokens) IN
    IF IsBlank(tok.text) THEN process_tokens_from(p, textpart, Tail(tokens), text_run)
    ELSE
    LET urn_token_index ==
            IF textpart # 0
            THEN Len(SelectSeq(p.heap_tp[textpart].tokens,
                               LAMBDA t : t.text = tok.text)) + 1
            ELSE 1
        token == [text |-> tok.text,
                  urn |-> p.current_textpart_urn \o "@" \o tok.text \o "["
                          \o ToString(urn_token_index) \o "]",
                  whitespace |-> Len(tok.spaces_after) > 0]
        q == IF textpart # 0
             THEN [p EXCEPT !.heap_tp[textpart].tokens = Append(@, token)]
             ELSE p
    IN  process_tokens_from(q, textpart, Tail(tokens), Append(text_run, token))

process_tokens(p, tokens) ==
    process_tokens_from(p,
        IF Len(p.textpart_stack) > 0 THEN Last(p.textpart_stack) ELSE 0,
        tokens, <<>>)

\* tokenize: the segmentation port, called for Greek and Latin only.
tokenize(p, s) ==
    IF p.language = "grc" THEN s.toks
    ELSE IF p.language = "la" THEN s.toks
    ELSE <<>>

\* len(text_run): the number of keys of the dict process_tokens returns.
len_dict(d) == Cardinality(DOMAIN d)

\* characters without the test of lines 197-203: self.element_stack[-1] raises.
characters_unguarded(p, content) ==
    IF Len(p.element_stack) = 0
    THEN Raise(p, "IndexError")
    ELSE
    LET parent_element == Last(p.element_stack)
        res == process_tokens(p, tokenize(p, content))
    IN  IF len_dict(res.text_run) > 0
        THEN [res.p EXCEPT !.heap_el[parent_element].children =
                               Append(@, ChildRun(res.text_run))]
        ELSE res.p

characters(p, content) ==
    IF Len(p.element_stack) = 0
    THEN IF ~content.blank
         THEN Logged(p, "warning: characters must belong to an element")
         ELSE p
    ELSE
    LET parent_element == Last(p.element_stack)
        res == process_tokens(p, tokenize(p, content))
    IN  IF len_dict(res.text_run) > 0
        THEN [res.p EXCEPT !.heap_el[parent_element].children =
                               Append(@, ChildRun(res.text_run))]
        ELSE res.p

\* endElementNS without the test of lines 246-257: every popped element is
\* appended to self.elements.
endElementNS_all_top(p, localname) ==
    IF localname = "div" /\ Len(p.textpart_stack) > 0
    THEN [p EXCEPT !.textpart_stack = Front(@),
                   !.textparts = Append(@, Last(p.textpart_stack))]
    ELSE IF Len(p.element_stack) > 0
    THEN [p EXCEPT !.element_stack = Front(p.element_stack),
                   !.elements = Append(@, Last(p.element_stack))]
    ELSE p

endElementNS(p, localname) ==
    IF localname = "div" /\ Len(p.textpart_stack) > 0
    THEN [p EXCEPT !.textpart_stack = Front(@),
                   !.textparts = Append(@, Last(p.textpart_stack))]
    ELSE IF Len(p.element_stack) > 0
    THEN LET el == Last(p.element_stack)
             stack == Front(p.element_stack)
         IN  IF Len(stack) > 0
             THEN IF Len(SelectSeq(p.heap_el[Last(stack)].children,
                         LAMBDA x : ChildHasIndex(p, x, p.heap_el[el].index))) = 0
                  THEN [p EXCEPT !.element_stack = stack, !.elements = Append(@, el)]
                  ELSE [p EXCEPT !.element_stack = stack]
             ELSE [p EXCEPT !.element_stack = stack, !.elements = Append(@, el)]
    ELSE p

\* startElementNS recording an unknown tag without handling the element.
startElementNS_recording(p, localname, attrs) ==
    IF localname = "body" THEN p
    ELSE IF localname = "div" THEN handle_div(p, attrs)
    ELSE IF localname \in KnownTags THEN handle_element(p, localname, attrs)
    ELSE [Logged(p, "debug: unknown element")
             EXCEPT !.unhandled_elements = @ \cup {localname}]

startElementNS(p, localname, attrs) ==
    IF localname = "body" THEN p
    ELSE IF localname = "div" THEN handle_div(p, attrs)
    ELSE IF localname \in KnownTags THEN handle_element(p, localname, attrs)
    ELSE handle_element(
             [Logged(p, "debug: unknown element")
                 EXCEPT !.unhandled_elements = @ \cup {localname}],
             localname, attrs)

(***************************************************************************)
(* Parsing one document: lxml.sax.saxify(body, self) walks the body and    *)
(* calls the handlers in document order (TEIParser.__init__, lines         *)
(* 170-171).  The events are well nested.  events holds the events inside  *)
(* the body, at most MaxEvents of them, so a tag is opened only if it can  *)
(* still be closed; the body's own open event changes nothing (line 399)   *)
(* and its close event is EndBody.  A document has at most one edition     *)
(* division.                                                               *)
(***************************************************************************)
Deliver(p, ev) ==
    IF ev.kind = "start" THEN startElementNS(p, ev.name, ev.attrs)
    ELSE IF ev.kind = "chars" THEN characters(p, ev.content)
    ELSE endElementNS(p, ev.name)

\* The first instance handles one more event.
Feed(ev) ==
    /\ parser.raised = None
    /\ LET q == Deliver(parser, ev)
       IN  /\ parser' = [q EXCEPT !.logger = <<>>]
           /\ log' = log \o q.logger
    /\ events' = Append(events, ev)
    /\ tree' = tree

Parsing == Len(sax) > 0 /\ parser.raised = None

\* The parse is over: saxify has returned and TEIParser(filename) with it.
Done == Len(sax) = 0 /\ parser.raised = None

CanOpen == Parsing /\ Len(events) + Len(sax) + 1 <= MaxEvents

HasEdition == \E i \in 1..Len(events) : events[i].attrs.type = "edition"

StartDiv ==
    \E attrs \in DivAttrs :
        /\ CanOpen
        /\ attrs.type = "edition" => ~HasEdition
        /\ Feed(StartEv("div", attrs))
        /\ sax' = Append(sax, "div")

StartElement ==
    \E tag \in Tags :
        /\ CanOpen
        /\ Feed(StartEv(tag, NoAttrs))
        /\ sax' = Append(sax, tag)

Characters ==
    \E content \in Contents :
        /\ Parsing
        /\ Len(events) + Len(sax) <= MaxEvents
        /\ Feed(CharsEv(content))
        /\ sax' = sax

EndElement ==
    /\ Len(sax) > 1
    /\ Feed(EndEv(Last(sax)))
    /\ sax' = Front(sax)

EndBody ==
    /\ sax = <<"body">>
    /\ parser.raised = None
    /\ LET q == endElementNS(parser, "body")
       IN  /\ parser' = [q EXCEPT !.logger = <<>>]
           /\ log' = log \o q.logger
    /\ sax' = <<>>
    /\ UNCHANGED <<events, tree>>

(***************************************************************************)
(* The intermediate artifact (ingestion.py): parsed_data as json.dump      *)
(* writes it, the element tree nested under the top-level elements.        *)
(***************************************************************************)
RunNode(text_run) ==
    [tagname |-> "text_run", index |-> -1, textpart_index |-> -1,
     textpart_urn |-> None, urn |-> None, children |-> <<>>,
     tokens |-> text_run.tokens]

RECURSIVE ElementNode(_, _)
ElementNode(p, ref) ==
    LET el == p.heap_el[ref]
    IN  [tagname |-> el.tagname, index |-> el.index,
         textpart_index |-> el.textpart_index,
         textpart_urn |-> el.textpart_urn, urn |-> el.urn,
         children |-> [i \in 1..Len(el.children) |->
                          IF el.children[i].ref = 0
                          THEN RunNode(el.children[i].text_run)
                          ELSE ElementNode(p, el.children[i].ref)],
         tokens |-> <<>>]

\* parse_tei_to_json, lines 73-86: the dict built from the parser.
parsed_data(p, tei_path) ==
    [source_file |-> tei_path,
     author |-> p.author,
     editionStmt |-> p.editionStmt,
     language |-> p.language,
     publicationStmt |-> p.publicationStmt,
     respStmt |-> p.respStmt,
     sourceDesc |-> p.sourceDesc,
     title |-> p.title,
     urn |-> p.urn,
     textpart_labels |-> p.textpart_labels,
     textparts |-> [i \in 1..Len(p.textparts) |-> p.heap_tp[p.textparts[i]]],
     elements |-> [i \in 1..Len(p.elements) |-> ElementNode(p, p.elements[i])]]

\* json_to_parser_like: the artifact read back as a TEIParser-like object.
json_to_parser_like(data) ==
    [author |-> data.author, editionStmt |-> data.editionStmt,
     language |-> data.language, publicationStmt |-> data.publicationStmt,
     respStmt |-> data.respStmt, sourceDesc |-> data.sourceDesc,
     title |-> data.title, urn |-> data.urn,
     textpart_labels |-> data.textpart_labels,
     textparts |-> data.textparts, elements |-> data.elements]

(***************************************************************************)
(* Storage (database.py, migrations/0001_init.py): four tables; a row's id *)
(* is its place in its table.  A session holds the rows it has flushed and *)
(* not yet committed.                                                      *)
(***************************************************************************)
NoRows == [documents |-> <<>>, textparts |-> <<>>, elements |-> <<>>, tokens |-> <<>>]

\* A load in progress: the committed tables, the session's uncommitted rows,
\* and the exception raised, if any.
Session(tables, rows) == [db |-> tables, tx |-> rows, raised |-> None]

Failed(st, exc) == [st EXCEPT !.raised = exc]

\* The stages of save_to_db at which the storage itself may fail.
Faults == {"none", "document", "textparts", "elements", "commit"}

Visible(st, table) == st.db[table] \o st.tx[table]

\* INSERT INTO documents: every column is NOT NULL, urn is UNIQUE.
insert_document(st, row) ==
    IF \/ \E f \in DOMAIN row : row[f] = None
       \/ \E i \in 1..Len(Visible(st, "documents")) :
             Visible(st, "documents")[i].urn = row.urn
    THEN Failed(st, "IntegrityError")
    ELSE [st EXCEPT !.tx.documents = Append(@, row)]

\* INSERT INTO textparts: document_urn, idx and urn are NOT NULL, urn is UNIQUE.
insert_textpart(st, row) ==
    IF \/ row.document_urn = None
       \/ row.urn = None
       \/ \E i \in 1..Len(Visible(st, "textparts")) :
             Visible(st, "textparts")[i].urn = row.urn
    THEN Failed(st, "IntegrityError")
    ELSE [st EXCEPT !.tx.textparts = Append(@, row)]

\* INSERT INTO elements: idx, tagname, textpart_id and urn are NOT NULL.
insert_element(st, row) ==
    IF row.textpart_id = 0 \/ row.tagname = None \/ row.urn = None
    THEN Failed(st, "IntegrityError")
    ELSE [st EXCEPT !.tx.elements = Append(@, row)]

\* A commit that leaves in the tables the rows of the session alone.
commit_replacing(st) == [st EXCEPT !.db = st.tx, !.tx = NoRows]

\* db_session.commit() and db_session.rollback().
commit(st) ==
    [st EXCEPT !.db = [t \in DOMAIN st.db |-> st.db[t] \o st.tx[t]], !.tx = NoRows]

\* A rollback that leaves the rows of the session where they are.
rollback_nothing(st) == st

rollback(st) == [st EXCEPT !.tx = NoRows]

\* textpart_id_map: a dict from textpart URN to row id; get gives 0 for None.
MapPut(m, k, v) == [x \in DOMAIN m \cup {k} |-> IF x = k THEN v ELSE m[x]]

MapGet(m, k) == IF k \in DOMAIN m THEN m[k] ELSE 0

(***************************************************************************)
(* The loader (api.py).                                                    *)
(***************************************************************************)
\* The tokens of one text run, each with its position in the run.
save_tokens(st, tokens, element_id, textpart_id) ==
    [st EXCEPT !.tx.tokens = @ \o
        [k \in 1..Len(tokens) |->
            [element_id |-> element_id, position |-> k - 1,
             text |-> tokens[k].text, textpart_id |-> textpart_id,
             urn |-> tokens[k].urn, whitespace |-> tokens[k].whitespace]]]

RECURSIVE save_element(_, _, _, _)
RECURSIVE save_children(_, _, _, _, _)
\* save_element, lines 86-102: the children of the element just inserted.
save_children(st, textpart_id_map, children, db_element, textpart_id) ==
    IF st.raised # None \/ Len(children) = 0 THEN st
    ELSE
    LET child == Head(children)
        next == IF child.tagname = "text_run"
                THEN save_tokens(st, child.tokens, db_element, textpart_id)
                ELSE save_element(st, textpart_id_map, child, db_element)
    IN  save_children(next, textpart_id_map, Tail(children), db_element, textpart_id)

save_element(st, textpart_id_map, element, parent_id) ==
    LET textpart_id == MapGet(textpart_id_map, element.textpart_urn)
        db_element == Len(Visible(st, "elements")) + 1
        flushed == insert_element(st,
                      [idx |-> element.index, parent_id |-> parent_id,
                       tagname |-> element.tagname, textpart_id |-> textpart_id,
                       urn |-> element.urn])
    IN  save_children(flushed, textpart_id_map, element.children, db_element, textpart_id)

\* save_to_db, lines 28-45: the textparts, and the map from URN to row id.
RECURSIVE save_textparts(_, _, _, _)
save_textparts(st, textpart_id_map, document_urn, textparts) ==
    IF st.raised # None \/ Len(textparts) = 0
    THEN [st |-> st, textpart_id_map |-> textpart_id_map]
    ELSE
    LET textpart_data == Head(textparts)
        id == Len(Visible(st, "textparts")) + 1
        flushed == insert_textpart(st,
                      [document_urn |-> document_urn,
                       idx |-> textpart_data.index,
                       location |-> Join(textpart_data.location, "."),
                       n |-> textpart_data.n,
                       subtype |-> textpart_data.subtype,
                       type |-> textpart_data.type,
                       urn |-> textpart_data.urn])
    IN  save_textparts(flushed, MapPut(textpart_id_map, textpart_data.urn, id),
                       document_urn, Tail(textparts))

\* save_to_db, lines 47-49: the top-level elements.
RECURSIVE save_elements(_, _, _)
save_elements(st, textpart_id_map, elements) ==
    IF st.raised # None \/ Len(elements) = 0 THEN st
    ELSE save_elements(save_element(st, textpart_id_map, Head(elements), 0),
                       textpart_id_map, Tail(elements))

Storage(st, stage, fault) ==
    IF st.raised = None /\ fault = stage THEN Failed(st, "OperationalError") ELSE st

\* save_to_db, lines 13-22: the Document row.
Document(tei_parser) ==
    [editionStmt |-> tei_parser.editionStmt,
     language |-> tei_parser.language,
     publicationStmt |-> tei_parser.publicationStmt,
     respStmt |-> tei_parser.respStmt,
     sourceDesc |-> tei_parser.sourceDesc,
     textgroup |-> tei_parser.author,
     title |-> tei_parser.title,
     urn |-> tei_parser.urn]

\* save_to_db, lines 12-51: the body of the try statement.
save_to_db_try(st, tei_parser, fault) ==
    LET document == Document(tei_parser)
        s1 == IF fault = "document" THEN Failed(st, "OperationalError")
              ELSE insert_document(st, document)
        s2 == save_textparts(
                  IF Len(tei_parser.textparts) > 0 THEN Storage(s1, "textparts", fault) ELSE s1,
                  <<>>, tei_parser.urn, tei_parser.textparts)
        s3 == save_elements(
                  IF Len(tei_parser.elements) > 0 THEN Storage(s2.st, "elements", fault) ELSE s2.st,
                  s2.textpart_id_map, tei_parser.elements)
        s4 == Storage(s3, "commit", fault)
    IN  IF s4.raised = None THEN commit(s4) ELSE s4

\* save_to_db without db_session.rollback() in its except clause.
save_to_db_no_rollback(st, tei_parser, fault) ==
    IF tei_parser.urn = None THEN Failed(st, "ValueError")
    ELSE save_to_db_try(st, tei_parser, fault)

\* save_to_db: an exception rolls the session back and is raised again.
save_to_db(st, tei_parser, fault) ==
    IF tei_parser.urn = None THEN Failed(st, "ValueError")
    ELSE LET tried == save_to_db_try(st, tei_parser, fault)
         IN  IF tried.raised # None
             THEN Failed(rollback(tried), tried.raised)
             ELSE tried

\* document_exists finding no document.
document_exists_never(st, urn) == FALSE

\* document_exists: a query of the committed documents and the session's own.
document_exists(st, urn) ==
    \E i \in 1..Len(Visible(st, "documents")) : Visible(st, "documents")[i].urn = urn

\* load_json_to_database: result is the URN loaded, or None when skipped.
load_json_to_database(st, data, fault) ==
    LET urn == data.urn IN
    IF urn = None \/ urn = ""
    THEN [st |-> Failed(st, "ValueError"), result |-> None]
    ELSE IF document_exists(st, urn)
    THEN [st |-> st, result |-> None]
    ELSE LET saved == save_to_db(st, json_to_parser_like(data), fault)
         IN  [st |-> saved, result |-> IF saved.raised = None THEN urn ELSE None]

(***************************************************************************)
(* TEIParser(filename): the whole constructor, and parse_tei_to_json.      *)
(***************************************************************************)
RECURSIVE saxify(_, _)
saxify(p, evs) ==
    IF p.raised # None \/ Len(evs) = 0 THEN p
    ELSE saxify(Deliver(p, Head(evs)), Tail(evs))

TEIParser(doc) ==
    LET p == TEIParser_fields(doc.tree)
    IN  IF p.raised # None THEN p
        ELSE LET q == saxify(startElementNS(p, "body", NoAttrs), doc.events)
             IN  IF q.raised # None THEN q ELSE endElementNS(q, "body")

\* parse_tei_to_json: raised, or the parsed data written to the output path.
parse_tei_to_json(doc, tei_path) ==
    LET p == TEIParser(doc)
    IN  [raised |-> p.raised,
         data |-> IF p.raised = None THEN parsed_data(p, tei_path) ELSE None]

(***************************************************************************)
(* The corpus: the source directory of the pipeline model.  Each file has  *)
(* a name, the stem get_json_path keeps, and the document it holds.        *)
(***************************************************************************)
Doc(t, evs) == [tree |-> t, events |-> evs]

Edition(u) == StartEv("div", remove_ns_from_attrs("edition", u, None, "grc"))

Textpart(n) == StartEv("div", remove_ns_from_attrs("textpart", n, "chapter", None))

TestContent == CharsEv([blank |-> FALSE, toks |-> <<Tok("Test", " "), Tok("content", "")>>])

\* One edition, one textpart, one paragraph holding "Test content".
OneParagraph(u) ==
    << Edition(u), Textpart("1"), StartEv("p", NoAttrs), TestContent,
       EndEv("p"), EndEv("div"), EndEv("div") >>

\* Two textparts numbered 1 under one edition, a paragraph in each.
TwoChapters(u) ==
    << Edition(u),
       Textpart("1"), StartEv("p", NoAttrs), TestContent, EndEv("p"), EndEv("div"),
       Textpart("1"), StartEv("p", NoAttrs), EndEv("p"), EndEv("div"),
       EndEv("div") >>

Corpus ==
    << [stem |-> "a", cts |-> FALSE, doc |-> Doc(FullTree, OneParagraph("u"))],
       [stem |-> "b", cts |-> FALSE,
        doc |-> Doc([FullTree EXCEPT !.sourceDesc = FALSE], OneParagraph("x"))],
       [stem |-> "c", cts |-> FALSE,
        doc |-> Doc(FullTree, <<Edition("u"), Textpart("1"), EndEv("div"), EndEv("div")>>)],
       [stem |-> "d", cts |-> FALSE,
        doc |-> Doc([FullTree EXCEPT !.author = FALSE], OneParagraph("v"))],
       [stem |-> "e", cts |-> FALSE, doc |-> Doc(FullTree, TwoChapters("w"))],
       [stem |-> "f", cts |-> FALSE,
        doc |-> Doc(FullTree, <<StartEv("p", NoAttrs), TestContent, EndEv("p")>>)],
       [stem |-> "g", cts |-> FALSE, doc |-> Doc(FullTree, OneParagraph("y"))],
       [stem |-> "__cts__", cts |-> TRUE,
        doc |-> Doc([FullTree EXCEPT !.editionStmt = FALSE], <<>>)] >>

Files == 1..Len(Corpus)

\* discover_tei_files: source_dir.rglob("*.xml"), in the order of the corpus.
discover_tei_files == SelectSeq([f \in Files |-> f], LAMBDA f : f \in source_dir)

tei_name(f) == Corpus[f].stem \o ".xml"

\* get_json_path: the relative path with its suffix replaced.
get_json_path(f) == Corpus[f].stem \o ".json"

\* "__cts__" in t.name
is_cts(f) == Corpus[f].cts

\* A path of the output directory: absent, or a file with its content.
NoFile == [exists |-> FALSE, data |-> <<>>]

File(data) == [exists |-> TRUE, data |-> data]

(***************************************************************************)
(* The commands (cli.py).  A command handles one file per step.            *)
(***************************************************************************)
Idle == [cmd |-> "idle", all |-> FALSE, todo |-> <<>>, total |-> 0,
         done |-> 0, skipped |-> 0, errors |-> 0]

NoCall == [op |-> "none", file |-> 0, result |-> None, raised |-> None,
           faulted |-> FALSE]

\* No status command has run, no worker is running, no contents are asked.
NoStatus == [total |-> 0, parsed |-> 0, loaded |-> 0, files |-> <<>>]

NoWorkers == <<>>

NoContents == [textparts |-> <<>>, textpart_labels |-> <<>>, made |-> FALSE,
               contents |-> <<>>]

IdlePipeline ==
    /\ fs = [f \in Files |-> NoFile]
    /\ db = NoRows
    /\ db_exists = FALSE
    /\ session = NoRows
    /\ run = Idle
    /\ reports = <<>>
    /\ last = NoCall
    /\ status = NoStatus
    /\ workers = NoWorkers
    /\ toc = NoContents
    /\ source_dir = Files

Report(r) == [cmd |-> r.cmd, total |-> r.total, done |-> r.done,
              skipped |-> r.skipped, errors |-> r.errors]

CanStart == run.cmd = "idle" /\ Len(reports) < MaxRuns

\* parse_command, lines 80-96 (all is TRUE when all_command invokes it).
BeginParse(all) ==
    LET tei_files == SelectSeq(discover_tei_files, LAMBDA t : ~is_cts(t))
    IN  /\ run' = [Idle EXCEPT !.cmd = "parse", !.all = all,
                               !.todo = tei_files, !.total = Len(tei_files)]
        /\ UNCHANGED <<fs, db, db_exists, session, reports, last>>

StartParse == CanStart /\ BeginParse(FALSE) /\ UNCHANGED <<pvars, ovars>>

StartAll == CanStart /\ BeginParse(TRUE) /\ UNCHANGED <<pvars, ovars>>

\* json_path.exists() answering no for every path.
exists_never(files, f) == FALSE

\* json_path.exists()
exists(files, f) == files[f].exists

\* parse_command, lines 99-111: one file of the loop.
ParseFile ==
    /\ run.cmd = "parse"
    /\ Len(run.todo) > 0
    /\ LET tei_path == Head(run.todo)
           rest == [run EXCEPT !.todo = Tail(@)]
       IN  IF exists(fs, tei_path)
           THEN /\ run' = [rest EXCEPT !.skipped = @ + 1]
                /\ last' = [NoCall EXCEPT !.op = "skip", !.file = tei_path]
                /\ fs' = fs
           ELSE LET parsed == parse_tei_to_json(Corpus[tei_path].doc, tei_name(tei_path))
                IN  IF parsed.raised = None
                    THEN /\ fs' = [fs EXCEPT ![tei_path] = File(parsed.data)]
                         /\ run' = [rest EXCEPT !.done = @ + 1]
                         /\ last' = [NoCall EXCEPT !.op = "parse", !.file = tei_path,
                                                   !.result = parsed.data.urn]
                    ELSE /\ fs' = fs
                         /\ run' = [rest EXCEPT !.errors = @ + 1]
                         /\ last' = [NoCall EXCEPT !.op = "parse", !.file = tei_path,
                                                   !.raised = parsed.raised]
    /\ UNCHANGED <<db, db_exists, session, reports, pvars, ovars>>

\* parse_tei_to_json stopped between open(output_path, "w") (line 91) and
\* the end of json.dump (line 92): the file is there, its content is not.
\* The command ends with the process.
Truncated == [exists |-> TRUE, data |-> <<>>]

InterruptParse ==
    /\ run.cmd = "parse"
    /\ Len(run.todo) > 0
    /\ LET tei_path == Head(run.todo)
       IN  /\ ~exists(fs, tei_path)
           /\ parse_tei_to_json(Corpus[tei_path].doc, tei_name(tei_path)).raised = None
           /\ fs' = [fs EXCEPT ![tei_path] = Truncated]
           /\ last' = [NoCall EXCEPT !.op = "interrupt", !.file = tei_path]
    /\ run' = Idle
    /\ UNCHANGED <<db, db_exists, session, reports, pvars, ovars>>

\* load_command, lines 131-147: get_db_session creates a missing database.
BeginLoad(echoed) ==
    LET json_files == SelectSeq(discover_tei_files, LAMBDA f : exists(fs, f))
    IN  /\ db_exists' = TRUE
        /\ session' = NoRows
        /\ IF Len(json_files) = 0
           THEN /\ run' = Idle
                /\ reports' = Append(echoed, Report([Idle EXCEPT !.cmd = "load"]))
           ELSE /\ run' = [Idle EXCEPT !.cmd = "load", !.all = run.all,
                                       !.todo = json_files,
                                       !.total = Len(json_files)]
                /\ reports' = echoed
        /\ UNCHANGED <<fs, db, last>>

StartLoad == CanStart /\ BeginLoad(reports) /\ UNCHANGED <<pvars, ovars>>

\* all_command starting its load phase while files are left to parse.
FinishParse_early ==
    /\ run.cmd = "parse"
    /\ IF run.all
       THEN BeginLoad(Append(reports, Report(run)))
       ELSE /\ Len(run.todo) = 0
            /\ run' = Idle
            /\ reports' = Append(reports, Report(run))
            /\ UNCHANGED <<fs, db, db_exists, session, last>>
    /\ UNCHANGED <<pvars, ovars>>

\* parse_command, line 113, and all_command going on to the load phase.
FinishParse ==
    /\ run.cmd = "parse"
    /\ Len(run.todo) = 0
    /\ IF run.all
       THEN BeginLoad(Append(reports, Report(run)))
       ELSE /\ run' = Idle
            /\ reports' = Append(reports, Report(run))
            /\ UNCHANGED <<fs, db, db_exists, session, last>>
    /\ UNCHANGED <<pvars, ovars>>

\* load_command, lines 150-160: one file of the loop.  The storage may fail
\* at any stage of the write.
LoadFile ==
    /\ run.cmd = "load"
    /\ Len(run.todo) > 0
    /\ \E fault \in Faults :
         LET json_path == Head(run.todo)
             rest == [run EXCEPT !.todo = Tail(@)]
             call == load_json_to_database(Session(db, session), fs[json_path].data, fault)
             st == call.st
         IN  /\ last' = [op |-> "load", file |-> json_path, result |-> call.result,
                         raised |-> st.raised,
                         faulted |-> st.raised = "OperationalError"]
             /\ db' = st.db
             /\ IF st.raised = None
                THEN /\ session' = st.tx
                     /\ run' = IF call.result = None
                               THEN [rest EXCEPT !.skipped = @ + 1]
                               ELSE [rest EXCEPT !.done = @ + 1]
                ELSE /\ session' = rollback(st).tx
                     /\ run' = [rest EXCEPT !.errors = @ + 1]
    /\ UNCHANGED <<fs, db_exists, reports, pvars, ovars>>

\* load_command, lines 162-163: db_session.remove() and the counts.
FinishLoad ==
    /\ run.cmd = "load"
    /\ Len(run.todo) = 0
    /\ session' = NoRows
    /\ run' = Idle
    /\ reports' = Append(reports, Report(run))
    /\ UNCHANGED <<fs, db, db_exists, last, pvars, ovars>>

(***************************************************************************)
(* The status query (ingestion.py get_ingestion_status, cli.py             *)
(* status_command).                                                        *)
(***************************************************************************)
\* Line 219: the URNs of the documents the session's query returns.
loaded_urns(tables) == {tables.documents[i].urn : i \in 1..Len(tables.documents)}

\* The number of entries of files for which the key is true.
RECURSIVE CountTrue(_, _)
CountTrue(files, key) ==
    IF Len(files) = 0 THEN 0
    ELSE (IF Head(files)[key] THEN 1 ELSE 0) + CountTrue(Tail(files), key)

\* get_ingestion_status that takes an artifact for a loaded document.
get_ingestion_status_of_artifacts(files, tables) ==
    LET entry(tei_path) ==
            LET parsed == exists(files, tei_path)
                urn == IF parsed THEN files[tei_path].data.urn ELSE None
            IN  [tei_path |-> tei_name(tei_path), json_path |-> get_json_path(tei_path),
                 parsed |-> parsed, loaded |-> parsed, urn |-> urn]
        listed == [k \in 1..Len(discover_tei_files) |-> entry(discover_tei_files[k])]
    IN  [total |-> Len(listed), parsed |-> CountTrue(listed, "parsed"),
         loaded |-> CountTrue(listed, "loaded"), files |-> listed]

\* get_ingestion_status: one entry for each file discover_tei_files yields.
get_ingestion_status(files, tables) ==
    LET entry(tei_path) ==
            LET parsed == exists(files, tei_path)
                urn == IF parsed THEN files[tei_path].data.urn ELSE None
                loaded == parsed /\ urn \in loaded_urns(tables)
            IN  [tei_path |-> tei_name(tei_path), json_path |-> get_json_path(tei_path),
                 parsed |-> parsed, loaded |-> loaded, urn |-> urn]
        listed == [k \in 1..Len(discover_tei_files) |-> entry(discover_tei_files[k])]
    IN  [total |-> Len(listed), parsed |-> CountTrue(listed, "parsed"),
         loaded |-> CountTrue(listed, "loaded"), files |-> listed]

\* status_command, lines 211-217: get_db_session(db_path, create_if_missing=
\* True) creates a missing database; the session is removed after the query.
\* The counts the command echoes are those of status.
StartStatus ==
    /\ CanStart
    /\ db_exists' = TRUE
    /\ status' = get_ingestion_status(fs, db)
    /\ session' = NoRows
    /\ reports' = Append(reports, Report([Idle EXCEPT !.cmd = "status",
                                                      !.total = status'.total]))
    /\ UNCHANGED <<fs, db, run, last, workers, toc, source_dir, pvars>>

(***************************************************************************)
(* Load workers running at once on one database: each is a call of          *)
(* load_json_to_database on one artifact with a session of its own.  The    *)
(* database is the SQLite file of get_db_session: a session sees the        *)
(* committed rows and its own, and one session writes at a time, so an      *)
(* insert made while the other session holds rows it has not committed      *)
(* ends, when the wait is over, in "database is locked".  A worker takes    *)
(* the steps of save_to_db one at a time.  db_session.add(document) writes *)
(* nothing: the Document row is inserted by the first flush, which for the *)
(* artifacts of the workers, all with textparts, is that of line 43.       *)
(***************************************************************************)
\* The artifacts the workers load: two artifacts of URN u and one of URN y.
RaceFiles == {1, 3, 7}

Worker(f) == [file |-> f, pc |-> "check", tx |-> NoRows, textpart_id_map |-> <<>>,
              result |-> None, raised |-> None]

Other(w) == 3 - w

\* The parser-like object the worker has read from its artifact.
WorkerData(w) == json_to_parser_like(fs[workers[w].file].data)

\* The other session has flushed rows and neither committed nor rolled back.
Locked(w) == workers[Other(w)].pc \in {"elements", "commit"}

\* save_to_db, lines 52-54, and load_command, lines 157-160: the exception
\* rolls the session back and the command counts an error.
WorkerRaises(w, exc) ==
    workers' = [workers EXCEPT ![w].pc = "done", ![w].tx = NoRows,
                               ![w].raised = exc, ![w].result = "error"]

WorkerSaved(w, st, pc) ==
    IF st.raised # None THEN WorkerRaises(w, st.raised)
    ELSE workers' = [workers EXCEPT ![w].tx = st.tx, ![w].pc = pc]

\* load_json_to_database, lines 162-171: the URN and the existence check.
WorkerChecks(w) ==
    /\ workers[w].pc = "check"
    /\ LET urn == fs[workers[w].file].data.urn
       IN  IF urn = None \/ urn = "" THEN WorkerRaises(w, "ValueError")
           ELSE IF document_exists(Session(db, workers[w].tx), urn)
           THEN workers' = [workers EXCEPT ![w].pc = "done", ![w].result = "skipped"]
           ELSE workers' = [workers EXCEPT ![w].pc = "textparts"]
    /\ db' = db

\* save_to_db, lines 13-45: the Document row and the textparts are added
\* and flushed.
WorkerInsertsTextparts(w) ==
    /\ workers[w].pc = "textparts"
    /\ IF Locked(w) THEN WorkerRaises(w, "OperationalError")
       ELSE
       LET saved == save_textparts(
                        insert_document(Session(db, workers[w].tx),
                                        Document(WorkerData(w))),
                        <<>>, WorkerData(w).urn, WorkerData(w).textparts)
       IN  IF saved.st.raised # None THEN WorkerRaises(w, saved.st.raised)
           ELSE workers' = [workers EXCEPT ![w].tx = saved.st.tx,
                                           ![w].textpart_id_map = saved.textpart_id_map,
                                           ![w].pc = "elements"]
    /\ db' = db

\* save_to_db, lines 47-49.
WorkerInsertsElements(w) ==
    /\ workers[w].pc = "elements"
    /\ WorkerSaved(w, save_elements(Session(db, workers[w].tx),
                                    workers[w].textpart_id_map, WorkerData(w).elements),
                   "commit")
    /\ db' = db

\* save_to_db, line 51, and load_json_to_database returning the URN.
WorkerCommits(w) ==
    /\ workers[w].pc = "commit"
    /\ db' = commit(Session(db, workers[w].tx)).db
    /\ workers' = [workers EXCEPT ![w].pc = "done", ![w].tx = NoRows,
                                  ![w].result = "loaded"]

(***************************************************************************)
(* The table of contents (tei_parser.py, lines 85-124).  An entry is a     *)
(* dict with label, urn and subtype; the key subpassages, set only when    *)
(* the entry has children, is the empty sequence when the dict has none.   *)
(***************************************************************************)
RECURSIVE Reverse(_)
Reverse(s) == IF Len(s) = 0 THEN <<>> ELSE Append(Reverse(Tail(s)), Head(s))

\* str.capitalize() on the subtypes of the model.
capitalize(str) ==
    IF str = "chapter" THEN "Chapter"
    ELSE IF str = "section" THEN "Section"
    ELSE IF str = "line" THEN "Line"
    ELSE str

\* f"{t['subtype'].capitalize()} {t.get('n', '')}".strip()
label(t) == IF t.n = None THEN capitalize(t.subtype)
            ELSE capitalize(t.subtype) \o " " \o t.n

\* hierarchy.index(x), for an x that is in the list.
index(hierarchy, x) ==
    (CHOOSE k \in 1..Len(hierarchy) :
        hierarchy[k] = x /\ \A j \in 1..(k - 1) : hierarchy[j] # x) - 1

\* The loop of lines 114-117 popping the entries that are not shallower.
RECURSIVE pop_deeper_or_equal(_, _, _)
pop_deeper_or_equal(stack, level, children) ==
    IF Len(stack) > 0 /\ Last(stack).level >= level
    THEN pop_deeper_or_equal(Front(stack), level, Append(children, Last(stack).item))
    ELSE [stack |-> stack, children |-> children]

\* nest_textparts, lines 114-117: the entries of the stack that are deeper.
RECURSIVE pop_deeper(_, _, _)
pop_deeper(stack, level, children) ==
    IF Len(stack) > 0 /\ Last(stack).level > level
    THEN pop_deeper(Front(stack), level, Append(children, Last(stack).item))
    ELSE [stack |-> stack, children |-> children]

\* Lines 119-120 with the children in the order they were popped in.
subpassages_popped(item, children) ==
    IF Len(children) > 0 THEN [item EXCEPT !.subpassages = children] ELSE item

\* nest_textparts, lines 119-120.
subpassages(item, children) ==
    IF Len(children) > 0 THEN [item EXCEPT !.subpassages = Reverse(children)] ELSE item

RECURSIVE nest_from(_, _, _)
nest_from(textparts, hierarchy, stack) ==
    IF Len(textparts) = 0 THEN [k \in 1..Len(stack) |-> stack[k].item]
    ELSE
    LET item == Head(textparts)
        level == index(hierarchy, item.subtype)
    IN  IF Len(stack) = 0
        THEN nest_from(Tail(textparts), hierarchy, <<[level |-> level, item |-> item]>>)
        ELSE LET popped == pop_deeper(stack, level, <<>>)
             IN  nest_from(Tail(textparts), hierarchy,
                           Append(popped.stack,
                                  [level |-> level,
                                   item |-> subpassages(item, popped.children)]))

nest_textparts(textparts, hierarchy) == nest_from(textparts, hierarchy, <<>>)

\* create_table_of_contents without the test of line 92 for the type.
create_table_of_contents_unfiltered(textparts, textpart_labels) ==
    LET entries == [k \in 1..Len(textparts) |->
                      [label |-> label(textparts[k]), urn |-> textparts[k].urn,
                       subtype |-> textparts[k].subtype, subpassages |-> <<>>]]
    IN  IF Len(textpart_labels) = 1 THEN entries
        ELSE nest_textparts(entries, textpart_labels)

create_table_of_contents(textparts, textpart_labels) ==
    LET filtered == SelectSeq(textparts, LAMBDA t : t.type = "textpart")
        entries == [k \in 1..Len(filtered) |->
                      [label |-> label(filtered[k]), urn |-> filtered[k].urn,
                       subtype |-> filtered[k].subtype, subpassages |-> <<>>]]
    IN  IF Len(textpart_labels) = 1 THEN entries
        ELSE nest_textparts(entries, textpart_labels)

\* The divisions of the documents whose contents are made: chapters and
\* sections numbered 1 or 2.
ContentsAttrs ==
    { remove_ns_from_attrs("textpart", n, subtype, None) :
        n \in {"1", "2"}, subtype \in {"chapter", "section"} }

StartTextpart ==
    \E attrs \in ContentsAttrs :
        /\ CanOpen
        /\ Feed(StartEv("div", attrs))
        /\ sax' = Append(sax, "div")

\* self.textparts: the closed textparts, in the order they were closed in.
closed_textparts(p) == [k \in 1..Len(p.textparts) |-> p.heap_tp[p.textparts[k]]]

\* create_table_of_contents(parser.textparts, parser.textpart_labels) after
\* the parse.
MakeContents ==
    /\ Done
    /\ ~toc.made
    /\ toc' = [textparts |-> closed_textparts(parser),
               textpart_labels |-> parser.textpart_labels,
               made |-> TRUE,
               contents |-> create_table_of_contents(closed_textparts(parser),
                                                     parser.textpart_labels)]
    /\ UNCHANGED <<pvars, ivars, status, workers, source_dir>>

\* create_table_of_contents called on any list: divisions of three subtypes
\* and of a type that is not textpart, in any order, under any order of the
\* subtypes.
Subtypes == {"chapter", "section", "line"}

EntryKinds ==
    { remove_ns_from_attrs("textpart", "1", subtype, None) : subtype \in Subtypes }
        \cup { remove_ns_from_attrs("edition", "1", "chapter", None) }

Hierarchies ==
    { h \in [1..3 -> Subtypes] : \A i, j \in 1..3 : i # j => h[i] # h[j] }

\* The k-th textpart of a list: a dict as add_textpart_to_stack leaves it.
ListedTextpart(attrs, k) ==
    [type |-> attrs.type, n |-> attrs.n, subtype |-> attrs.subtype,
     lang |-> attrs.lang, index |-> k - 1, location |-> <<attrs.n>>,
     urn |-> "u:" \o ToString(k), tokens |-> <<>>]

AddEntry ==
    \E attrs \in EntryKinds :
        /\ ~toc.made
        /\ Len(toc.textparts) < MaxEntries
        /\ toc' = [toc EXCEPT !.textparts =
                       Append(@, ListedTextpart(attrs, Len(toc.textparts) + 1))]
        /\ UNCHANGED <<pvars, ivars, status, workers, source_dir>>

NestContents ==
    /\ ~toc.made
    /\ toc' = [toc EXCEPT !.made = TRUE,
                          !.contents = create_table_of_contents(toc.textparts,
                                                                toc.textpart_labels)]
    /\ UNCHANGED <<pvars, ivars, status, workers, source_dir>>

(***************************************************************************)
(* The specifications.                                                     *)
(***************************************************************************)
InitParser ==
    /\ tree \in Trees
    /\ events = <<>>
    /\ sax = <<"body">>
    /\ parser = startElementNS(TEIParser_fields(tree), "body", NoAttrs)
    /\ parser2 = TEIParser_fields(tree)
    /\ pos2 = 0
    /\ trace = <<>>
    /\ log = <<>>
    /\ IdlePipeline

\* What a parse of one document alone leaves as it is.
OneParse == UNCHANGED <<parser2, pos2, trace, ivars, ovars>>

NextParser ==
    \/ StartDiv /\ OneParse
    \/ StartElement /\ OneParse
    \/ Characters /\ OneParse
    \/ EndElement /\ OneParse
    \/ EndBody /\ OneParse

SpecParser == InitParser /\ [][NextParser]_vars

\* TEIParser(filename) on short documents under every header.
InitHeaders ==
    /\ tree \in Headers
    /\ events = <<>>
    /\ sax = <<"body">>
    /\ parser = startElementNS(TEIParser_fields(tree), "body", NoAttrs)
    /\ parser2 = TEIParser_fields(tree)
    /\ pos2 = 0
    /\ trace = <<>>
    /\ log = <<>>
    /\ IdlePipeline

Brief == Len(events') + Len(sax') <= MaxHeaderEvents + 1

NextHeaders ==
    \/ StartDiv /\ Brief /\ OneParse
    \/ StartElement /\ Brief /\ OneParse
    \/ Characters /\ Brief /\ OneParse
    \/ EndElement /\ OneParse
    \/ EndBody /\ OneParse

SpecHeaders == InitHeaders /\ [][NextHeaders]_vars

\* Two instances on one document, as in two calls of parse_tei_to_json on
\* one file in one process: the first parses it and trace keeps the state
\* it is in after each event; when it has returned or raised, the second
\* handles the same events.  Both write to the module's logger.
InitDet ==
    /\ tree \in Trees
    /\ events = <<>>
    /\ sax = <<"body">>
    /\ parser = startElementNS(TEIParser_fields(tree), "body", NoAttrs)
    /\ parser2 = TEIParser_fields(tree)
    /\ pos2 = 0
    /\ trace = <<parser>>
    /\ log = <<>>
    /\ IdlePipeline

Recorded ==
    /\ Len(events') + Len(sax') <= MaxReplay + 1
    /\ trace' = Append(trace, parser')
    /\ UNCHANGED <<parser2, pos2, ivars, ovars>>

\* The events saxify delivers: the body's own and those inside it.
Delivered == <<StartEv("body", NoAttrs)>> \o events \o <<EndEv("body")>>

Replay ==
    /\ Len(sax) = 0 \/ parser.raised # None
    /\ pos2 < Len(trace)
    /\ LET q == Deliver(parser2, Delivered[pos2 + 1])
       IN  /\ parser2' = [q EXCEPT !.logger = <<>>]
           /\ log' = log \o q.logger
    /\ pos2' = pos2 + 1
    /\ UNCHANGED <<tree, events, sax, parser, trace, ivars, ovars>>

NextDet ==
    \/ StartDiv /\ Recorded
    \/ StartElement /\ Recorded
    \/ Characters /\ Recorded
    \/ EndElement /\ Recorded
    \/ EndBody /\ Recorded
    \/ Replay

SpecDet == InitDet /\ [][NextDet]_vars

\* The pipeline on the corpus: no parser instance of the model is running.
InitPipeline ==
    /\ tree = FullTree
    /\ events = <<>>
    /\ sax = <<>>
    /\ parser = TEIParser_fields(tree)
    /\ parser2 = TEIParser_fields(tree)
    /\ pos2 = 0
    /\ trace = <<>>
    /\ log = <<>>
    /\ IdlePipeline

NextPipeline ==
    \/ StartParse
    \/ StartLoad
    \/ StartAll
    \/ ParseFile
    \/ FinishParse
    \/ LoadFile
    \/ FinishLoad
    \/ StartStatus

SpecPipeline == InitPipeline /\ [][NextPipeline]_vars

(***************************************************************************)
(* Callers of the storage functions: save_to_db (api.py) called with a     *)
(* parsed model, load_json_to_database (ingestion.py) called on the        *)
(* artifact of one, on one database and one session.  The models are what  *)
(* the parser yields for documents whose edition division has the URN u,   *)
(* y or the empty string, or that have no edition division, and for a      *)
(* paragraph whose text a line break divides in two.                       *)
(***************************************************************************)
Models ==
    << OneParagraph("u"),
       OneParagraph("y"),
       OneParagraph(""),
       <<StartEv("p", NoAttrs), TestContent, EndEv("p")>>,
       <<Textpart("1"), StartEv("p", NoAttrs), TestContent, EndEv("p"), EndEv("div")>>,
       <<Edition("w"), Textpart("1"), StartEv("p", NoAttrs), TestContent,
         StartEv("lb", NoAttrs), EndEv("lb"), TestContent, EndEv("p"),
         EndEv("div"), EndEv("div")>> >>

ModelData(m) == parse_tei_to_json(Doc(FullTree, Models[m]), "m.xml").data

\* One call: the storage as the call leaves it, and what the caller saw.
Called(op, m, st, result) ==
    /\ db' = st.db
    /\ session' = st.tx
    /\ last' = [op |-> op, file |-> m, result |-> result, raised |-> st.raised,
                faulted |-> st.raised = "OperationalError"]
    /\ reports' = Append(reports, Report([Idle EXCEPT !.cmd = op]))
    /\ UNCHANGED <<fs, db_exists, run, pvars, ovars>>

SaveModel ==
    \E m \in 1..Len(Models), fault \in Faults :
        /\ Len(reports) < MaxCalls
        /\ LET st == save_to_db(Session(db, session),
                                json_to_parser_like(ModelData(m)), fault)
           IN  Called("save", m, st, None)

LoadModel ==
    \E m \in 1..Len(Models), fault \in Faults :
        /\ Len(reports) < MaxCalls
        /\ LET call == load_json_to_database(Session(db, session), ModelData(m), fault)
           IN  Called("load", m, call.st, call.result)

InitSave == InitPipeline

NextSave ==
    \/ SaveModel
    \/ LoadModel

SpecSave == InitSave /\ [][NextSave]_vars

\* The contents of a document of chapters and sections under one edition:
\* the parse starts inside the edition division.
InitContents ==
    /\ tree = FullTree
    /\ events = <<Edition("u")>>
    /\ sax = <<"body", "div">>
    /\ parser = saxify(startElementNS(TEIParser_fields(tree), "body", NoAttrs), events)
    /\ parser2 = TEIParser_fields(tree)
    /\ pos2 = 0
    /\ trace = <<>>
    /\ log = <<>>
    /\ IdlePipeline

NextContents ==
    \/ StartTextpart /\ OneParse
    \/ EndElement /\ OneParse
    \/ EndBody /\ OneParse
    \/ MakeContents

SpecContents == InitContents /\ [][NextContents]_vars

\* Parse runs that may be interrupted while an artifact is written.
InitInterrupt == InitPipeline

NextInterrupt ==
    \/ StartParse
    \/ ParseFile
    \/ FinishParse
    \/ InterruptParse

SpecInterrupt == InitInterrupt /\ [][NextInterrupt]_vars

\* The parse and status commands on any source directory: the directory holds
\* any of the files of the corpus.
InitDirectory ==
    /\ tree = FullTree
    /\ events = <<>>
    /\ sax = <<>>
    /\ parser = TEIParser_fields(tree)
    /\ parser2 = TEIParser_fields(tree)
    /\ pos2 = 0
    /\ trace = <<>>
    /\ log = <<>>
    /\ fs = [f \in Files |-> NoFile]
    /\ db = NoRows
    /\ db_exists = FALSE
    /\ session = NoRows
    /\ run = Idle
    /\ reports = <<>>
    /\ last = NoCall
    /\ status = NoStatus
    /\ workers = NoWorkers
    /\ toc = NoContents
    /\ source_dir \in SUBSET Files

NextDirectory ==
    \/ StartParse
    \/ ParseFile
    \/ FinishParse
    \/ StartStatus

SpecDirectory == InitDirectory /\ [][NextDirectory]_vars

\* The files of the corpus parse_tei_to_json writes an artifact for.
Parsable ==
    {f \in Files : ~is_cts(f) /\ parse_tei_to_json(Corpus[f].doc, tei_name(f)).raised = None}

\* Repeated load runs on the artifacts parse runs have written: any of the
\* parsable files has its artifact, and the database does not exist yet.
InitProgress ==
    /\ tree = FullTree
    /\ events = <<>>
    /\ sax = <<>>
    /\ parser = TEIParser_fields(tree)
    /\ parser2 = TEIParser_fields(tree)
    /\ pos2 = 0
    /\ trace = <<>>
    /\ log = <<>>
    /\ \E written \in SUBSET Parsable :
         fs = [f \in Files |->
                 IF f \in written
                 THEN File(parse_tei_to_json(Corpus[f].doc, tei_name(f)).data)
                 ELSE NoFile]
    /\ db = NoRows
    /\ db_exists = FALSE
    /\ session = NoRows
    /\ run = Idle
    /\ reports = <<>>
    /\ last = NoCall
    /\ status = NoStatus
    /\ workers = NoWorkers
    /\ toc = NoContents
    /\ source_dir = Files

\* load_command run once more, however many commands have run before; only
\* the counts of the latest run are kept.
StartLoadAgain ==
    /\ run.cmd = "idle"
    /\ BeginLoad(<<>>)
    /\ UNCHANGED <<pvars, ovars>>

\* One file of the loop of load_command on a storage that does not fail: no
\* stage of the write raises an OperationalError.
LoadFileSound == LoadFile /\ ~last'.faulted

NextProgress ==
    \/ StartLoadAgain
    \/ LoadFileSound
    \/ FinishLoad

\* The for loop of load_command, lines 150-160, goes on to its next file:
\* whatever the call on the file at hand does, the file leaves the list and
\* one of the three counts goes up.
NextFile ==
    /\ run.cmd = "load"
    /\ Len(run.todo) > 0
    /\ run' \in { [[run EXCEPT !.todo = Tail(@)] EXCEPT ![count] = @ + 1] :
                    count \in {"done", "skipped", "errors"} }

\* Load runs are repeated for ever, and each run goes through its loop and
\* ends.  A step of NextProgress that is a step of NextFile is a step of
\* LoadFileSound, and the two are enabled in the same states.
SpecProgress ==
    /\ InitProgress
    /\ [][NextProgress]_vars
    /\ WF_vars(StartLoadAgain)
    /\ WF_run(NextFile)
    /\ WF_vars(FinishLoad)

\* The table of contents of any list of textparts.
InitNester ==
    /\ tree = FullTree
    /\ events = <<>>
    /\ sax = <<>>
    /\ parser = TEIParser_fields(tree)
    /\ parser2 = TEIParser_fields(tree)
    /\ pos2 = 0
    /\ trace = <<>>
    /\ log = <<>>
    /\ fs = [f \in Files |-> NoFile]
    /\ db = NoRows
    /\ db_exists = FALSE
    /\ session = NoRows
    /\ run = Idle
    /\ reports = <<>>
    /\ last = NoCall
    /\ status = NoStatus
    /\ workers = NoWorkers
    /\ \E h \in Hierarchies : toc = [NoContents EXCEPT !.textpart_labels = h]
    /\ source_dir = Files

NextNester ==
    \/ AddEntry
    \/ NestContents

SpecNester == InitNester /\ [][NextNester]_vars

\* Two load workers on the artifacts of a parse run and an empty database.
InitRace ==
    /\ tree = FullTree
    /\ events = <<>>
    /\ sax = <<>>
    /\ parser = TEIParser_fields(tree)
    /\ parser2 = TEIParser_fields(tree)
    /\ pos2 = 0
    /\ trace = <<>>
    /\ log = <<>>
    /\ fs = [f \in Files |->
               IF f \in RaceFiles
               THEN File(parse_tei_to_json(Corpus[f].doc, tei_name(f)).data)
               ELSE NoFile]
    /\ db = NoRows
    /\ db_exists = TRUE
    /\ session = NoRows
    /\ run = Idle
    /\ reports = <<>>
    /\ last = NoCall
    /\ status = NoStatus
    /\ workers \in {<<Worker(f), Worker(g)>> : f, g \in RaceFiles}
    /\ toc = NoContents
    /\ source_dir = Files

\* What the workers leave as it is.
Racing ==
    UNCHANGED <<pvars, fs, db_exists, session, run, reports, last, status, toc,
                source_dir>>

NextRace ==
    \/ \E w \in 1..2 : WorkerChecks(w) /\ Racing
    \/ \E w \in 1..2 : WorkerInsertsTextparts(w) /\ Racing
    \/ \E w \in 1..2 : WorkerInsertsElements(w) /\ Racing
    \/ \E w \in 1..2 : WorkerCommits(w) /\ Racing

SpecRace == InitRace /\ [][NextRace]_vars

(***************************************************************************)
(* The pipeline: what a load stores and what a second run does.            *)
(***************************************************************************)
\* The artifacts of the output directory.
Artifacts == {f \in Files : fs[f].exists}

\* The elements of an artifact at all nesting levels, and the tokens of all
\* its text runs.
RECURSIVE CountElements(_)
CountElements(nodes) ==
    IF Len(nodes) = 0 THEN 0
    ELSE (IF Head(nodes).tagname = "text_run" THEN 0
          ELSE 1 + CountElements(Head(nodes).children))
         + CountElements(Tail(nodes))

RECURSIVE CountTokens(_)
CountTokens(nodes) ==
    IF Len(nodes) = 0 THEN 0
    ELSE (IF Head(nodes).tagname = "text_run" THEN Len(Head(nodes).tokens)
          ELSE CountTokens(Head(nodes).children))
         + CountTokens(Tail(nodes))

\* after holds, committed, the tables before and the whole document of data.
Committed(before, after, data) ==
    /\ after.tx = NoRows
    /\ Len(after.db.documents) = Len(before.documents) + 1
    /\ Last(after.db.documents).urn = data.urn
    /\ Len(after.db.textparts) = Len(before.textparts) + Len(data.textparts)
    /\ Len(after.db.elements) = Len(before.elements) + CountElements(data.elements)
    /\ Len(after.db.tokens) = Len(before.tokens) + CountTokens(data.elements)

\* C1: save_to_db is atomic.  Called on any artifact, with the storage
\* failing at any stage or not at all, it either commits the document with
\* all its textparts, elements and tokens, or raises and leaves the storage
\* as it was before the call, with nothing pending in the session.
C1_SaveToDbAtomic ==
    /\ \A f \in Artifacts, fault \in Faults :
          LET data == fs[f].data
              after == save_to_db(Session(db, session), json_to_parser_like(data), fault)
          IN  IF after.raised # None
              THEN after.db = db /\ after.tx = NoRows
              ELSE Committed(db, after, data)
    /\ last.op = "load" => session = NoRows

\* A load has failed in the storage after another document was committed.
C1_Witness ==
    /\ last.op = "load"
    /\ last.faulted
    /\ Len(db.documents) > 0
    /\ session = NoRows

\* C2: load_json_to_database on an artifact whose URN is not empty and is
\* already stored returns None and changes neither the storage nor the
\* session, and no two stored documents have the same URN.
C2_LoadIdempotent ==
    /\ \A f \in Artifacts :
          LET data == fs[f].data
          IN  (/\ data.urn # None
               /\ \E i \in 1..Len(db.documents) : db.documents[i].urn = data.urn)
              => \A fault \in Faults :
                    load_json_to_database(Session(db, session), data, fault)
                        = [st |-> Session(db, session), result |-> None]
    /\ \A i, j \in 1..Len(db.documents) :
          db.documents[i].urn = db.documents[j].urn => i = j

\* A later load run has skipped an artifact that an earlier run loaded.
C2_Witness ==
    /\ last.op = "load"
    /\ last.result = None
    /\ last.raised = None
    /\ \E i \in 1..Len(reports) : reports[i].cmd = "load" /\ reports[i].done > 0
    /\ \E i \in 1..Len(db.documents) : db.documents[i].urn = fs[last.file].data.urn

\* The last parse run that has reported, 0 if there is none.
PrevParse ==
    LET runs == {i \in 1..Len(reports) : reports[i].cmd = "parse"}
    IN  IF runs = {} THEN 0 ELSE CHOOSE i \in runs : \A j \in runs : j <= i

\* The parse command leaves a file whose artifact exists as it is.
SkipsExisting ==
    (run.cmd = "parse" /\ Len(run.todo) > 0 /\ fs[Head(run.todo)].exists)
    => /\ fs' = fs
       /\ run'.skipped = run.skipped + 1
       /\ run'.done = run.done
       /\ run'.errors = run.errors

\* C3 as claimed: a file whose artifact exists is skipped, and a second
\* parse run parses nothing and skips as many files as there are.
C3_SecondRunSkipsAll ==
    [][/\ SkipsExisting
       /\ (run.cmd = "parse" /\ Len(run.todo) = 0 /\ PrevParse # 0)
          => (run.done = 0 /\ run.errors = 0 /\ run.skipped = run.total)]_vars

\* C3 as amended: a file whose artifact exists is skipped, and a second
\* parse run writes no artifact, skips the files the runs before it have
\* parsed, and fails again on the files that failed before.
C3_SecondRunSkipsParsed ==
    [][/\ SkipsExisting
       /\ (run.cmd = "parse" /\ Len(run.todo) = 0 /\ PrevParse # 0)
          => (/\ run.done = 0
              /\ run.skipped = reports[PrevParse].done + reports[PrevParse].skipped
              /\ run.errors = reports[PrevParse].errors)]_vars

\* A second parse run is over: it has skipped files and failed on others.
C3_Witness ==
    /\ run.cmd = "parse"
    /\ Len(run.todo) = 0
    /\ PrevParse # 0
    /\ run.skipped > 0
    /\ run.errors > 0

\* C4: every artifact the parse phase has written loads into an empty
\* storage without an exception, under the URN the parser computed, with as
\* many textparts, elements and tokens as the artifact holds.
C4_RoundTrip ==
    \A f \in Artifacts :
        LET data == fs[f].data
            call == load_json_to_database(Session(NoRows, NoRows), data, "none")
        IN  /\ call.st.raised = None
            /\ call.result = data.urn
            /\ Committed(NoRows, call.st, data)

\* Every stored document has the URN of an artifact.
LoadedImpliesParsed ==
    \A i \in 1..Len(db.documents) :
        \E f \in Artifacts : fs[f].data.urn = db.documents[i].urn

\* C11: no step of a parse, load, all or status command removes or changes
\* an artifact, or removes or changes a stored document, and after every
\* step each stored document has the URN of an existing artifact: a file
\* only moves from undiscovered to parsed to loaded.
C11_ForwardOnly ==
    [][/\ \A f \in Files : fs[f].exists => fs'[f] = fs[f]
       /\ Len(db'.documents) >= Len(db.documents)
       /\ \A i \in 1..Len(db.documents) : db'.documents[i] = db.documents[i]
       /\ LoadedImpliesParsed']_vars

\* Two documents are stored, a file is not parsed, and a status command has
\* run since.
C11_Witness ==
    /\ Len(db.documents) >= 2
    /\ \E f \in Files : ~fs[f].exists
    /\ status.loaded >= 2

\* The parse command handles the file at the head of todo as that file and
\* its artifact alone demand, whatever happened to the files before it.
ParsesEachFile ==
    (run.cmd = "parse" /\ Len(run.todo) > 0) =>
        LET f == Head(run.todo)
            outcome == parse_tei_to_json(Corpus[f].doc, tei_name(f))
        IN  /\ run'.cmd = "parse"
            /\ run'.todo = Tail(run.todo)
            /\ \A g \in Files \ {f} : fs'[g] = fs[g]
            /\ IF fs[f].exists
               THEN /\ fs' = fs
                    /\ run'.skipped = run.skipped + 1
                    /\ run'.done = run.done /\ run'.errors = run.errors
               ELSE IF outcome.raised # None
               THEN /\ fs' = fs
                    /\ run'.errors = run.errors + 1
                    /\ run'.done = run.done /\ run'.skipped = run.skipped
               ELSE /\ fs'[f] = File(outcome.data)
                    /\ run'.done = run.done + 1
                    /\ run'.skipped = run.skipped /\ run'.errors = run.errors

\* C12: a parse that raises is counted as an error and the batch goes on,
\* every other file being skipped or parsed as without the failure, and at
\* the end parsed + skipped + errors is the number of discovered files.
C12_ParseBatch ==
    [][/\ ParsesEachFile
       /\ (run.cmd = "parse" /\ Len(run.todo) = 0)
          => run.done + run.skipped + run.errors = Len(discover_tei_files)]_vars

\* The load command handles the artifact at the head of todo and goes on;
\* a load that raises is counted as an error and leaves nothing behind.
LoadsEachFile ==
    (run.cmd = "load" /\ Len(run.todo) > 0) =>
        LET f == Head(run.todo)
        IN  /\ run'.cmd = "load"
            /\ run'.todo = Tail(run.todo)
            /\ fs' = fs
            /\ run'.done + run'.skipped + run'.errors
                  = run.done + run.skipped + run.errors + 1
            /\ last'.raised # None
               => /\ run'.errors = run.errors + 1
                  /\ db' = db
                  /\ session' = NoRows
                  /\ \A i \in 1..Len(db'.documents) :
                        db'.documents[i].urn # fs[f].data.urn

\* C13: a load that raises is rolled back and counted as an error, the
\* command goes on with the other artifacts and leaves the artifact where
\* it is; the next load run takes every artifact again; at the end loaded +
\* skipped + errors is the number of artifacts.
C13_LoadBatch ==
    [][/\ LoadsEachFile
       /\ (run.cmd # "load" /\ run'.cmd = "load")
          => {run'.todo[k] : k \in 1..Len(run'.todo)} = Artifacts
       /\ (run.cmd = "load" /\ Len(run.todo) = 0)
          => /\ run.done + run.skipped + run.errors = run.total
             /\ run.total = Cardinality(Artifacts)]_vars

\* A load run in which a load raised has ended, and in the next run a load
\* has raised again and a later artifact has been loaded.
C13_Witness ==
    /\ \E i \in 1..Len(reports) : reports[i].cmd = "load" /\ reports[i].errors > 0
    /\ run.cmd = "load"
    /\ run.errors > 0
    /\ last.op = "load"
    /\ last.raised = None
    /\ last.result # None

\* Both workers have ended and their artifacts have the same URN.
RaceOver ==
    /\ Len(workers) = 2
    /\ \A w \in 1..2 : workers[w].pc = "done"
    /\ fs[workers[1].file].data.urn = fs[workers[2].file].data.urn

\* The rows of one artifact of the workers, and nothing else, are stored.
OneDocumentStored ==
    /\ Len(db.documents) = 1
    /\ \A w \in 1..2 : workers[w].tx = NoRows
    /\ \E w \in 1..2 :
          LET data == fs[workers[w].file].data
          IN  /\ db.documents[1].urn = data.urn
              /\ Len(db.textparts) = Len(data.textparts)
              /\ Len(db.elements) = CountElements(data.elements)
              /\ Len(db.tokens) = CountTokens(data.elements)

\* C14: when two workers have loaded artifacts of one URN, in whatever
\* order their steps were taken, one document of that URN is stored with
\* one complete set of rows, and the worker that lost reports a skip.
C14_RaceLostIsSkip ==
    RaceOver =>
        /\ OneDocumentStored
        /\ \A w \in 1..2 : workers[w].result \in {"loaded", "skipped"}

\* The contents have been made of a chapter holding two sections: the
\* sections were closed before it, and it was the first to be opened.
ChapterOfTwoSections ==
    /\ toc.made
    /\ toc.textpart_labels = <<"chapter", "section">>
    /\ Len(toc.textparts) = 3
    /\ toc.textparts[1].subtype = "section"
    /\ toc.textparts[2].subtype = "section"
    /\ toc.textparts[3].subtype = "chapter"

\* C17: with the subtypes first seen in the order chapter, section, the
\* contents of a chapter holding two sections are one chapter entry whose
\* subpassages are the two sections in document order; with one subtype in
\* the document the contents are the list of the textparts, no entry with
\* subpassages.
C17_ContentsNested ==
    /\ ChapterOfTwoSections =>
          /\ Len(toc.contents) = 1
          /\ toc.contents[1].urn = toc.textparts[3].urn
          /\ toc.contents[1].subtype = "chapter"
          /\ Len(toc.contents[1].subpassages) = 2
          /\ \A k \in 1..2 :
                /\ toc.contents[1].subpassages[k].urn = toc.textparts[k].urn
                /\ toc.contents[1].subpassages[k].subtype = "section"
                /\ toc.contents[1].subpassages[k].label = "Section " \o toc.textparts[k].n
                /\ toc.contents[1].subpassages[k].subpassages = <<>>
    /\ (toc.made /\ Len(toc.textpart_labels) = 1) =>
          /\ Len(toc.contents) = Len(toc.textparts)
          /\ \A k \in 1..Len(toc.contents) :
                /\ toc.contents[k].urn = toc.textparts[k].urn
                /\ toc.contents[k].subpassages = <<>>

\* The contents of a chapter holding sections 1 and 2 have been made.
C17_Witness ==
    /\ ChapterOfTwoSections
    /\ toc.textparts[1].n = "1"
    /\ toc.textparts[2].n = "2"
    /\ toc.textparts[1].urn # toc.textparts[2].urn

\* The entries of a forest of contents with those below them, parents first,
\* and the rank of an entry: the place of its subtype in the labels.
RECURSIVE Flat(_)
Flat(forest) ==
    IF Len(forest) = 0 THEN <<>>
    ELSE <<Head(forest)>> \o Flat(Head(forest).subpassages) \o Flat(Tail(forest))

Rank(entry) == index(toc.textpart_labels, entry.subtype)

NonDecreasing(forest) ==
    \A i \in 1..(Len(forest) - 1) : Rank(forest[i]) <= Rank(forest[i + 1])

\* The stack of nest_textparts after each textpart of the list: what it
\* returns for the list up to that textpart.
StackAfter(k) ==
    create_table_of_contents(SubSeq(toc.textparts, 1, k), toc.textpart_labels)

\* C33: the ranks of the stack of nest_textparts never decrease from bottom
\* to top, so the top-level entries returned have non-decreasing ranks and
\* every subpassage has a greater rank than the entry that holds it.
C33_RanksOrdered ==
    toc.made =>
        /\ \A k \in 0..Len(toc.textparts) : NonDecreasing(StackAfter(k))
        /\ NonDecreasing(toc.contents)
        /\ \A i \in 1..Len(Flat(toc.contents)) :
              \A c \in 1..Len(Flat(toc.contents)[i].subpassages) :
                  Rank(Flat(toc.contents)[i].subpassages[c]) > Rank(Flat(toc.contents)[i])

\* A chapter holds a section that holds a line, after a chapter.
C33_Witness ==
    /\ toc.made
    /\ Len(toc.contents) = 2
    /\ Len(toc.contents[2].subpassages) = 1
    /\ Len(toc.contents[2].subpassages[1].subpassages) = 1

\* C36: every textpart of type textpart of the list is in the contents
\* exactly once, at top level or among the subpassages of one entry, and
\* the contents hold nothing else.
C36_EachEntryOnce ==
    toc.made =>
        /\ \A k \in 1..Len(toc.textparts) :
              toc.textparts[k].type = "textpart" =>
                  Cardinality({ i \in 1..Len(Flat(toc.contents)) :
                                  Flat(toc.contents)[i].urn = toc.textparts[k].urn }) = 1
        /\ Len(Flat(toc.contents)) =
              Len(SelectSeq(toc.textparts, LAMBDA t : t.type = "textpart"))

\* Four divisions, one of them no textpart, with nested contents.
C36_Witness ==
    /\ toc.made
    /\ Len(toc.textparts) = 4
    /\ \E k \in 1..4 : toc.textparts[k].type # "textpart"
    /\ \E i \in 1..Len(toc.contents) : Len(toc.contents[i].subpassages) = 2

\* The contents by containment: each closed textpart holds the textparts
\* closed before it that were opened deeper, those not held by another; the
\* depth of a numbered textpart is the length of its location.
RECURSIVE enclosed_from(_, _)
enclosed_from(textparts, stack) ==
    IF Len(textparts) = 0 THEN [k \in 1..Len(stack) |-> stack[k].item]
    ELSE LET t == Head(textparts)
             depth == Len(t.location)
             outer == SelectSeq(stack, LAMBDA x : x.level <= depth)
             held == SelectSeq(stack, LAMBDA x : x.level > depth)
             item == [label |-> label(t), urn |-> t.urn, subtype |-> t.subtype,
                      subpassages |-> [k \in 1..Len(held) |-> held[k].item]]
         IN  enclosed_from(Tail(textparts),
                           Append(outer, [level |-> depth, item |-> item]))

\* C35: the contents made of the closed textparts of a parsed document are
\* its textparts by containment: an entry is among the subpassages of the
\* textpart that directly enclosed it, and of no other.
C35_ContentsByContainment ==
    toc.made => toc.contents = enclosed_from(toc.textparts, <<>>)

\* The step is a status command.
StatusStep == Len(reports') = Len(reports) + 1 /\ Last(reports').cmd = "status"

\* C15: a status report has one entry for each discovered source file, in
\* which parsed says that the artifact of the file exists and loaded that it
\* does and its URN is stored; total is the number of discovered files and
\* loaded <= parsed <= total.
C15_StatusDerived ==
    [][StatusStep =>
        /\ status'.total = Len(discover_tei_files)
        /\ Len(status'.files) = Len(discover_tei_files)
        /\ \A k \in 1..Len(status'.files) :
              LET f == discover_tei_files[k]
                  entry == status'.files[k]
              IN  /\ entry.tei_path = tei_name(f)
                  /\ entry.parsed = fs[f].exists
                  /\ entry.loaded =
                        (/\ fs[f].exists
                         /\ \E i \in 1..Len(db.documents) :
                               db.documents[i].urn = fs[f].data.urn)
        /\ status'.parsed = Cardinality({k \in 1..Len(status'.files) : status'.files[k].parsed})
        /\ status'.loaded = Cardinality({k \in 1..Len(status'.files) : status'.files[k].loaded})
        /\ status'.loaded <= status'.parsed
        /\ status'.parsed <= status'.total]_vars

\* A status command has reported files that are loaded, files that are
\* parsed and not loaded, and files that are not parsed.
C15_Witness ==
    /\ status.loaded > 0
    /\ status.loaded < status.parsed
    /\ status.parsed < status.total

\* C16: a status command changes no artifact and leaves the storage as it
\* was, the database file that does not exist included.
C16_StatusNoEffect ==
    [][StatusStep => (fs' = fs /\ db' = db /\ db_exists' = db_exists)]_vars

\* C21: the parse phase writes no artifact whose URN is null: a document
\* without an edition division fails to parse.
C21_NoNullUrnArtifact ==
    \A f \in Files : fs[f].exists => fs[f].data.urn # None

\* A call of save_to_db or load_json_to_database on a model without URN.
CalledWithoutUrn ==
    /\ Len(reports') = Len(reports) + 1
    /\ last'.op \in {"save", "load"}
    /\ ModelData(last'.file).urn \in {None, ""}

\* C22: save_to_db and load_json_to_database called on a model whose URN is
\* null or empty raise ValueError and leave the storage as it was.
C22_NoUrnIsValueError ==
    [][CalledWithoutUrn =>
          (last'.raised = "ValueError" /\ db' = db /\ session' = session)]_vars

\* C40: the tokens stored for one element have pairwise distinct positions,
\* so their order by position is their order in the document.
C40_PositionsDistinct ==
    \A i, j \in 1..Len(db.tokens) :
        (i < j /\ db.tokens[i].element_id = db.tokens[j].element_id)
            => db.tokens[i].position < db.tokens[j].position

\* C37: on a storage that does not fail, every artifact the parse phase has
\* written is eventually loaded by repeated load runs: the URN of its
\* document becomes present in the documents table, also when the document
\* lacks optional metadata sections or never had its URN set.
C37_EventuallyLoaded ==
    \A f \in Files :
        exists(fs, f) ~> (exists(fs, f) /\ fs[f].data.urn \in loaded_urns(db))

\* The status command has just reported, and the command that ended before it
\* was a parse run that found files and echoed a count of no error.
StatusAfterCleanParse ==
    /\ Len(reports) >= 2
    /\ reports[Len(reports)].cmd = "status"
    /\ reports[Len(reports) - 1].cmd = "parse"
    /\ reports[Len(reports) - 1].total > 0
    /\ reports[Len(reports) - 1].errors = 0

\* C38: a status query that follows a parse run with zero errors reports
\* parsed = total, whatever files the source directory holds, files whose
\* name contains "__cts__" included.
C38_StatusAgreesWithParse ==
    StatusAfterCleanParse => status.parsed = status.total

\* C39: an artifact that exists holds the whole serialization of its source
\* file, whose parse did not fail, an interrupted write included.
C39_ArtifactComplete ==
    \A f \in Files :
        fs[f].exists =>
            /\ parse_tei_to_json(Corpus[f].doc, tei_name(f)).raised = None
            /\ fs[f].data = parse_tei_to_json(Corpus[f].doc, tei_name(f)).data

\* A load command starts (load_command itself, not the load phase of all).
LoadStarts ==
    /\ run.cmd = "idle"
    /\ \/ run'.cmd = "load"
       \/ Len(reports') = Len(reports) + 1 /\ Last(reports').cmd = "load"

\* C23: a load command run when the database does not exist ends at once,
\* loads nothing and leaves the database absent.
C23_LoadNeedsDatabase ==
    [][(LoadStarts /\ ~db_exists) =>
          (run' = Idle /\ db' = db /\ db_exists' = FALSE)]_vars

\* The parse phase of an all command ends.
AllParseEnds == run.cmd = "parse" /\ run.all /\ run'.cmd # "parse"

\* C24: the all command loads nothing while its parse phase runs; the phase
\* ends when every file has been parsed, skipped or counted as an error, and
\* the load phase that follows attempts every artifact there is then, those
\* the parse phase has just written included, one after the other.
C24_ParseBeforeLoad ==
    [][/\ (run.cmd = "parse" /\ run.all) => (db' = db /\ session' = session)
       /\ AllParseEnds =>
             /\ Len(run.todo) = 0
             /\ run.done + run.skipped + run.errors = run.total
             /\ fs' = fs
             /\ \A f \in Files : fs[f].exists => InSeq(f, run'.todo)
             /\ run'.cmd = "load" /\ run'.all
       /\ (run.cmd = "load" /\ run.all /\ Len(run.todo) > 0 /\ run' # run) =>
             /\ last'.op = "load" /\ last'.file = Head(run.todo)
             /\ run'.todo = Tail(run.todo)]_vars

C24_Witness ==
    /\ run.cmd = "load" /\ run.all
    /\ Last(reports).cmd = "parse" /\ Last(reports).done > 0
    /\ last.op = "load" /\ last.result # None
    /\ Len(run.todo) = 0

(***************************************************************************)
(* The model the parser has built: its textparts, elements and tokens.     *)
(***************************************************************************)
\* Every textpart created so far, open or closed, and every element.
AllTextparts == 1..Len(parser.heap_tp)

AllElements == 1..Len(parser.heap_el)

\* The places of the tokens of the model: element, child (a text run), position.
TokenPlaces ==
    { <<e, c, k>> \in AllElements \X (1..MaxEvents) \X (1..2) :
        /\ c <= Len(parser.heap_el[e].children)
        /\ parser.heap_el[e].children[c].ref = 0
        /\ k <= Len(parser.heap_el[e].children[c].text_run.tokens) }

TokenAt(pl) == parser.heap_el[pl[1]].children[pl[2]].text_run.tokens[pl[3]]

\* C5: no two textparts of a document, open or closed, have the same URN.
C5_TextpartUrnsUnique ==
    \A i, j \in AllTextparts :
        i # j => parser.heap_tp[i].urn # parser.heap_tp[j].urn

\* C6: no two elements owned by the same textpart have the same URN, at any
\* nesting depth.
C6_ElementUrnsUnique ==
    \A i, j \in AllElements :
        (i # j /\ parser.heap_el[i].textpart_index = parser.heap_el[j].textpart_index)
            => parser.heap_el[i].urn # parser.heap_el[j].urn

\* C7: no two tokens that belong to the same textpart (the textpart owning
\* the element whose text run holds them) have the same URN.
C7_TokenUrnsUnique ==
    \A a, b \in TokenPlaces :
        (a # b /\ parser.heap_el[a[1]].textpart_index = parser.heap_el[b[1]].textpart_index)
            => TokenAt(a).urn # TokenAt(b).urn

\* The textpart a step has just opened, if it opened one.
OpensTextpart == Len(parser'.heap_tp) = Len(parser.heap_tp) + 1

\* C8 as claimed: the location of a textpart is as long as its nesting depth
\* at creation, the number of textparts open when it was opened plus one.
C8_LocationDepth ==
    [][OpensTextpart =>
          Len(Last(parser'.heap_tp).location) = Len(parser.textpart_stack) + 1]_vars

\* The textparts of the stack that carry an n.
Numbered(p) ==
    SelectSeq(p.textpart_stack, LAMBDA t : p.heap_tp[t].n # None)

\* C8 as amended: the location of a textpart holds the n of every numbered
\* textpart open when it was opened, then its own n if it has one; so its
\* length is the nesting depth minus the unnumbered textparts on the path.
C8_LocationNumberedDepth ==
    [][OpensTextpart =>
          LET t == Last(parser'.heap_tp)
          IN  /\ Len(t.location) =
                    Len(Numbered(parser)) + (IF t.n # None THEN 1 ELSE 0)
              /\ \A i \in 1..Len(Numbered(parser)) :
                    t.location[i] = parser.heap_tp[Numbered(parser)[i]].n
              /\ t.n # None => Last(t.location) = t.n]_vars

\* A numbered textpart was opened inside a numbered textpart, and an
\* unnumbered one inside a textpart.
C8_Witness ==
    /\ \E i \in AllTextparts : Len(parser.heap_tp[i].location) = 2
    /\ \E i \in AllTextparts :
          /\ parser.heap_tp[i].n = None
          /\ parser.heap_tp[i].index > 0
          /\ Len(parser.heap_tp[i].location) = 1

\* The events of the scenario of C10.
Scenario ==
    << StartEv("div", remove_ns_from_attrs("edition", "u", None, "grc")),
       StartEv("div", remove_ns_from_attrs("textpart", "1", "chapter", None)),
       StartEv("p", NoAttrs),
       CharsEv([blank |-> FALSE, toks |-> <<Tok("Test", " "), Tok("content", "")>>]),
       EndEv("p"),
       EndEv("div"),
       EndEv("div") >>

LooseCharacters ==
    /\ Len(events') = Len(events) + 1
    /\ Last(events').kind = "chars"
    /\ Len(parser.element_stack) = 0

\* C18: characters that arrive while the element stack is empty raise
\* nothing and leave the instance as it is: no token, no text run, the
\* stacks, the closed textparts and elements and the tokens of the
\* textparts unchanged; a warning is logged when they are not blank.
C18_LooseCharacters ==
    [][LooseCharacters =>
          /\ parser'.raised = None
          /\ parser' = parser
          /\ log' = IF Last(events').content.blank THEN log
                    ELSE Append(log, "warning: characters must belong to an element")]_vars

\* Characters were dropped and logged, and the parse went on to the end
\* of a document with a textpart, an element and tokens.
C18_Witness ==
    /\ Done
    /\ InSeq("warning: characters must belong to an element", log)
    /\ Len(parser.elements) > 0
    /\ \E i \in 1..Len(parser.heap_tp) : Len(parser.heap_tp[i].tokens) > 0

\* A mandatory section of the header is absent.
MandatoryAbsent == ~tree.editionStmt \/ ~tree.sourceDesc

\* C19: TEIParser(filename) raises if and only if editionStmt or sourceDesc
\* is absent, and then before any event of the body; an optional section
\* that is absent raises nothing and leaves None in its field.
C19_MandatoryDecides ==
    /\ parser.raised # None <=> MandatoryAbsent
    /\ MandatoryAbsent => events = <<>>
    /\ ~MandatoryAbsent =>
          /\ parser.author = None <=> ~tree.author
          /\ parser.title = None <=> ~tree.title
          /\ parser.publicationStmt = None <=> ~tree.publicationStmt
          /\ parser.respStmt = None <=> ~tree.respStmt

\* The tags open after the events evs, a textpart division by the number of
\* the textparts opened up to it, any other tag by 0.
RECURSIVE open_tags(_, _, _)
open_tags(evs, stack, made) ==
    IF Len(evs) = 0 THEN stack
    ELSE LET ev == Head(evs)
         IN  IF ev.kind = "start"
             THEN IF ev.name = "div" /\ ev.attrs.type = "textpart"
                  THEN open_tags(Tail(evs), Append(stack, made + 1), made + 1)
                  ELSE open_tags(Tail(evs), Append(stack, 0), made)
             ELSE IF ev.kind = "end"
             THEN open_tags(Tail(evs), Front(stack), made)
             ELSE open_tags(Tail(evs), stack, made)

\* The textparts whose own close event has not arrived yet.
OpenTextparts == SelectSeq(open_tags(events, <<>>, 0), LAMBDA k : k # 0)

\* C25: the stack of open textparts holds exactly the textparts whose own
\* close event has not arrived, whatever divisions are nested inside them.
C25_ClosedByOwnClose ==
    parser.raised = None => parser.textpart_stack = OpenTextparts

\* The textpart that owns an element and the elements created before it.
Owner(e) == parser.heap_tp[parser.heap_el[e].textpart_index + 1]

EarlierSameTag(e) ==
    { j \in 1..(e - 1) :
        /\ parser.heap_el[j].tagname = parser.heap_el[e].tagname
        /\ parser.heap_el[j].textpart_index = parser.heap_el[e].textpart_index }

\* C26: the URN of an element is the URN of its textpart, its tag name and
\* the number of elements of that tag created earlier in the textpart.
C26_ElementUrnFormula ==
    \A e \in AllElements :
        parser.heap_el[e].urn =
            Owner(e).urn \o "@<" \o parser.heap_el[e].tagname \o ">["
                \o ToString(Cardinality(EarlierSameTag(e))) \o "]"

\* The tokens of a textpart before the k-th that have its text.
EarlierSameText(t, k) ==
    { j \in 1..(k - 1) :
        parser.heap_tp[t].tokens[j].text = parser.heap_tp[t].tokens[k].text }

\* C27: the URN of a token is the URN of its textpart, its text and the
\* number of tokens of that text created earlier in the textpart, from zero.
C27_TokenUrnFormula ==
    \A t \in AllTextparts :
        \A k \in 1..Len(parser.heap_tp[t].tokens) :
            parser.heap_tp[t].tokens[k].urn =
                parser.heap_tp[t].urn \o "@" \o parser.heap_tp[t].tokens[k].text
                    \o "[" \o ToString(Cardinality(EarlierSameText(t, k))) \o "]"

\* C28: the index of an element is the number of elements created before
\* it, so no two elements of a document have the same index.
C28_ElementIndexUnique ==
    \A e \in AllElements : parser.heap_el[e].index = e - 1

\* C29: every text run among the children of an element holds a token: a
\* characters event that yields no token appends nothing.
C29_NoEmptyRun ==
    \A e \in AllElements :
        \A c \in 1..Len(parser.heap_el[e].children) :
            parser.heap_el[e].children[c].ref = 0 =>
                Len(parser.heap_el[e].children[c].text_run.tokens) > 0

\* An element is a child of another, and how often it is held: as an entry
\* of the closed top-level list or as a child of an element.
IsChildOf(e, parent) ==
    \E c \in 1..Len(parser.heap_el[parent].children) :
        parser.heap_el[parent].children[c].ref = e

Holders(e) ==
    { <<0, k>> : k \in { i \in 1..Len(parser.elements) : parser.elements[i] = e } }
        \cup { <<par, c>> \in AllElements \X (1..MaxEvents) :
                  /\ c <= Len(parser.heap_el[par].children)
                  /\ parser.heap_el[par].children[c].ref = e }

PopsElement == Len(parser'.element_stack) = Len(parser.element_stack) - 1

\* When the document has ended no element is open and every element is
\* held exactly once; before, an open element is held by its parent alone.
HeldOnce ==
    /\ Done =>
          /\ parser.element_stack = <<>>
          /\ \A e \in AllElements : Cardinality(Holders(e)) = 1
    /\ \A k \in 1..Len(parser.element_stack) :
          LET e == parser.element_stack[k]
          IN  /\ ~InSeq(e, parser.elements)
              /\ k > 1 => IsChildOf(e, parser.element_stack[k - 1])
              /\ Cardinality(Holders(e)) = (IF k > 1 THEN 1 ELSE 0)
    /\ \A e \in AllElements :
          ~InSeq(e, parser.element_stack) => Cardinality(Holders(e)) = 1

PopRegisters ==
    LET el == Last(parser.element_stack)
        stack == parser'.element_stack
    IN  /\ stack = Front(parser.element_stack)
        /\ (parser'.elements = Append(parser.elements, el))
              <=> ~(Len(stack) > 0 /\ IsChildOf(el, Last(stack)))
        /\ parser'.elements # parser.elements
              => parser'.elements = Append(parser.elements, el)

\* C30: a popped element enters the closed top-level list if and only if it
\* is not a child of the new top of the stack; so after the events of a
\* document every element is reachable exactly once from that list, as an
\* entry of it or as a child of exactly one element.
C30_HeldOnce == []HeldOnce /\ [][PopsElement => PopRegisters]_vars

C30_Witness ==
    /\ Done
    /\ Len(parser.elements) > 0
    /\ \E e, par \in AllElements : IsChildOf(e, par)

\* The events with every p, a known tag, replaced by seg, an unknown one,
\* and the parser a second parse yields for them up to the same point.
Unknown(evs) ==
    [i \in DOMAIN evs |->
        IF evs[i].name = "p" THEN [evs[i] EXCEPT !.name = "seg"] ELSE evs[i]]

Reparsed(evs) ==
    LET q == saxify(startElementNS(TEIParser_fields(tree), "body", NoAttrs), evs)
    IN  IF Len(sax) = 0 /\ q.raised = None THEN endElementNS(q, "body") ELSE q

\* A parser without its log, its unhandled tags, and the tag names and URNs
\* of its elements.
Skeleton(p) ==
    [p EXCEPT !.logger = <<>>,
              !.unhandled_elements = {},
              !.heap_el = [i \in DOMAIN p.heap_el |->
                              [p.heap_el[i] EXCEPT !.tagname = "", !.urn = ""]]]

\* C31: with every known element tag replaced by an unknown one the parse
\* raises where it raised before and yields the same stacks, textparts,
\* tokens and element tree up to tag names and element URNs; the unknown
\* name is added to the unhandled tags and nothing else changes.
C31_UnknownTagSameStructure ==
    LET q == Reparsed(Unknown(events))
    IN  /\ q.raised = parser.raised
        /\ Skeleton(q) = Skeleton(parser)
        /\ \A e \in AllElements :
              /\ q.heap_el[e].tagname = "seg"
              /\ \E n \in 0..MaxEvents :
                    /\ parser.heap_el[e].urn =
                          parser.heap_el[e].textpart_urn \o "@<"
                              \o parser.heap_el[e].tagname \o ">[" \o ToString(n) \o "]"
                    /\ q.heap_el[e].urn =
                          parser.heap_el[e].textpart_urn \o "@<seg>["
                              \o ToString(n) \o "]"
        /\ q.unhandled_elements =
              parser.unhandled_elements
                  \cup { "seg" : i \in { k \in 1..Len(events) : events[k].name = "p" } }

C31_Witness ==
    /\ Done
    /\ "seg" \notin parser.unhandled_elements
    /\ \E e \in AllElements :
          /\ parser.heap_el[e].tagname = "p"
          /\ Reparsed(Unknown(events)).heap_el[e].tagname = "seg"
    /\ \E t \in AllTextparts : Len(parser.heap_tp[t].tokens) > 0

\* An element is opened while no textpart is open.
OpensOutside ==
    /\ Len(events') = Len(events) + 1
    /\ Last(events').kind = "start"
    /\ Last(events').name # "div"
    /\ Len(parser.textpart_stack) = 0

\* C32: an element opened while no textpart is open is created, pushed and
\* owned by the textpart closed last if one has closed; if none has, it is
\* dropped: no element is created, pushed or attached.  Neither case raises.
C32_OutsideTextpart ==
    [][OpensOutside =>
          /\ parser'.raised = None
          /\ IF Len(parser.textparts) > 0
             THEN /\ Len(parser'.heap_el) = Len(parser.heap_el) + 1
                  /\ Last(parser'.heap_el).textpart_index =
                        parser.heap_tp[Last(parser.textparts)].index
                  /\ parser'.element_stack =
                        Append(parser.element_stack, Len(parser'.heap_el))
                  /\ parser'.elements = parser.elements
             ELSE parser' =
                    [parser EXCEPT !.unhandled_elements =
                        @ \cup ({Last(events').name} \ KnownTags)]]_vars

C32_Witness ==
    /\ Done
    /\ InSeq("warning: orphaned element", log)
    /\ Len(parser.textparts) = 2
    /\ \E e \in AllElements :
          /\ parser.heap_el[e].textpart_index = parser.heap_tp[parser.textparts[2]].index
          /\ InSeq(e, parser.elements)
          /\ Len(SelectSeq(log, LAMBDA l : l = "warning: element outside of textparts")) = 2

\* C34: the textpart_urn of an element is the URN of the textpart that owns
\* it, the textpart whose index is its textpart_index.
C34_OwnerUrn ==
    \A e \in AllElements : parser.heap_el[e].textpart_urn = Owner(e).urn

\* C20: the parse of a document that has its mandatory metadata never
\* raises, whatever its divisions, elements and characters are.
C20_NeverRaises == tree = FullTree => parser.raised = None

\* C10: the scenario yields one textpart u:1, one top-level element p with
\* URN u:1@<p>[0], and the two tokens Test and content.
C10_Scenario ==
    events = Scenario =>
        /\ parser.raised = None
        /\ Len(parser.textparts) = 1
        /\ Len(parser.heap_tp) = 1
        /\ parser.heap_tp[parser.textparts[1]].urn = "u:1"
        /\ Len(parser.elements) = 1
        /\ Len(parser.heap_el) = 1
        /\ LET el == parser.heap_el[parser.elements[1]]
           IN  /\ el.tagname = "p"
               /\ el.urn = "u:1@<p>[0]"
               /\ Len(el.children) = 1
               /\ el.children[1].text_run.tokens =
                    << [text |-> "Test", urn |-> "u:1@Test[1]", whitespace |-> TRUE],
                       [text |-> "content", urn |-> "u:1@content[1]",
                        whitespace |-> FALSE] >>

C10_Witness == events = Scenario /\ Done

====
